---- MODULE Spec2Model ----
(***************************************************************************)
(* Verification model of factctl (WhyIsSandwich/factctl).                  *)
(*                                                                         *)
(*   Spec      the process supervisor  (internal/instance/runtime.go)      *)
(*   SpecLogs  the log subsystem       (internal/instance/logs.go)         *)
(*   SpecMods  the mod installer       (internal/instance/mods.go)         *)
(*   SpecModsFair  SpecMods with weak fairness of the installer's run    *)
(*   SpecCache   the download cache    (mods.go, downloadFromGitHub ..)    *)
(*   SpecBackup  backup and restore    (Manager.Remove, RestoreBackup)     *)
(*   SpecConfig  the configuration file (config.go, jsonc.Parse)           *)
(*   SpecNames   instance names        (validateInstanceName, Create)      *)
(*   SpecFair    Spec with weak fairness of the waiter goroutines          *)
(*   SpecBuilds  Spec for the binaries of every operating system           *)
(*   SpecRotate  log rotation over rotated logs of earlier runs            *)
(*   SpecStream  SpecLogs with Unsubscribe and the cancelled context       *)
(*   SpecCancelFair  the streaming goroutine under weak fairness           *)
(*   SpecUnsubscribe  LogManager.Unsubscribe called on its own             *)
(*   SpecCacheOps, SpecCacheRace  the cache step by step: one invocation,  *)
(*               two invocations on one cache directory                    *)
(*   SpecRestore  RestoreBackup with the errors it returns                 *)
(*   SpecCreate  Manager.Create with the errors it returns                 *)
(*   SpecVersion, SpecParse, SpecResolve  functions called on their own:   *)
(*               isVersionCompatible, ParseSource, the runtime lookup      *)
(*                                                                         *)
(* Every specification owns a group of variables and leaves the other      *)
(* groups at their initial value.                                          *)
(***************************************************************************)
EXTENDS Integers, Sequences, FiniteSets, TLC

VARIABLES
    \* ---- process supervisor (RuntimeManager) ----
    instState,   \* Instance.State of every instance handle ("none": not created)
    processes,   \* rm.processes: instance name -> process record id
    recs,        \* every InstanceProcess ever created, by id
    stop,        \* the Stop call in progress of each caller: position and record
    ret,         \* what the call that returned in the last step returned
    \* ---- log subsystem (LogManager), one instance ----
    files,       \* content of every log file ever created, by file identity
    paths,       \* paths[1]: file at factorio.log, paths[i+1]: file at factorio.log.i (0: none)
    handlers,    \* lm.handlers[instanceName]
    hcap,        \* capacity of the array behind lm.handlers[instanceName] (0: no key)
    delivered,   \* the LogEntry.Raw values each handler was called with
    stream,      \* the StreamLogs goroutine: file, offset, scanner, currentPos, ...
    appended,    \* per handler: bytes appended to factorio.log since it subscribed
    cleanSub,    \* handlers subscribed when StreamLogs started, nothing appended between
    \* ---- mod installer (ModManager), one instance ----
    enabled,        \* Config.Mods.Enabled
    sources,        \* the archives in the repository of each configured source
    portal,         \* the archives the mod portal hands out
    modFiles,       \* the archives in the instance's mods directory
    modList,        \* config/mod-list.json
    sourceRegistry, \* mm.sourceRegistry
    modInfos,       \* mm.modInfos
    installedMods,  \* installedMods of the running InstallModsRecursively
    installQueue,   \* its installQueue; each name with the line that queued it
    errors,         \* its errors
    mpc,            \* where the install run is
    mret,           \* what the last install call returned
    log,            \* what each iteration of the install loop did
    \* ---- download cache (ModManager.cacheDir) ----
    registry,    \* cache/downloads/registry.json: cache key -> CacheEntry
    cacheDir,    \* the other files of cache/downloads: path -> content
    remote,      \* head commit of every branch of the remote repository
    fetched,     \* the downloads made so far, and what happened between them
    dl,          \* the download in progress of each invocation, step by step
    \* ---- instance directories and backups (Manager) ----
    instDirs,    \* <base>/instances: instance name -> directory tree
    backupDir,   \* <base>/backups: archive name -> tar headers with their content
    now,         \* the second the clock shows
    trip,        \* the last Remove with backup: name, tree, and whether it was restored
    rst,         \* the RestoreBackup call in progress: position, temporary directory, error
    \* ---- configuration file (Config) ----
    cfgSaved,    \* the Config last given to SaveConfig that was written
    cfgFile,     \* the bytes of the configuration file
    cfgLoaded,   \* what LoadConfig returned for the file
    \* ---- instance names ----
    dirNames,    \* the names of the directories under <base>/instances
    nameRet,     \* the last call that took a name, and what it returned
    \* ---- functions called on their own ----
    fnCall,      \* the function called, its arguments and how far the call is
    fnRet,       \* what the call returned
    \* ---- the build ----
    goos         \* runtime.GOOS of the running binary

rtVars == <<instState, processes, recs, stop, ret>>
logVars == <<files, paths, handlers, hcap, delivered, stream, appended, cleanSub>>

modVars == <<enabled, sources, portal, modFiles, modList, sourceRegistry, modInfos,
             installedMods, installQueue, errors, mpc, mret, log>>

cacheVars == <<registry, cacheDir, remote, fetched, dl>>
backupVars == <<instDirs, backupDir, now, trip, rst>>
configVars == <<cfgSaved, cfgFile, cfgLoaded>>
nameVars == <<dirNames, nameRet>>
fnVars == <<fnCall, fnRet>>

\* the parts added to the first three
extVars == <<cacheVars, backupVars, configVars, nameVars, fnVars, goos>>

vars == <<rtVars, logVars, modVars, extVars>>
nonRtVars == <<logVars, modVars, extVars>>
nonLogVars == <<rtVars, modVars, extVars>>
nonModVars == <<rtVars, logVars, extVars>>
nonCacheVars == <<rtVars, logVars, modVars, backupVars, configVars, nameVars, fnVars, goos>>
nonBackupVars == <<rtVars, logVars, modVars, cacheVars, configVars, nameVars, fnVars, goos>>
nonConfigVars == <<rtVars, logVars, modVars, cacheVars, backupVars, nameVars, fnVars, goos>>
nonNameVars == <<rtVars, logVars, modVars, cacheVars, backupVars, configVars, fnVars, goos>>
nonFnVars == <<rtVars, logVars, modVars, cacheVars, backupVars, configVars, nameVars, goos>>

(***************************************************************************)
(* Generic helpers                                                         *)
(***************************************************************************)
Range(s) == {s[i] : i \in DOMAIN s}

RECURSIVE SetToSeqs(_)
\* all the orders in which the elements of a finite set can be enumerated
SetToSeqs(S) ==
    IF S = {} THEN {<<>>}
    ELSE UNION {{<<x>> \o t : t \in SetToSeqs(S \ {x})} : x \in S}

(***************************************************************************)
(* PROCESS SUPERVISOR                                                      *)
(***************************************************************************)
MaxStarts == 2

Names == {"n1", "n2"}
Handles == {"h1", "h2"}
Stoppers == {"t1"}

\* Instance.Config.Name of each handle
HandleName == [h \in Handles |-> IF h = "h1" THEN "n1" ELSE "n2"]
\* Instance.Config.Headless of each handle
HandleHeadless == [h \in Handles |-> h = "h1"]

StateUnknown == "unknown"
StateStarting == "starting"
StateRunning == "running"
StateStopped == "stopped"
StateError == "error"
InstanceStates == {StateUnknown, StateStarting, StateRunning, StateStopped, StateError}

StopIdle == [pc |-> "idle", rec |-> 0, sent |-> <<>>]

\* no call returned in the last step
NoRet == [op |-> "none", arg |-> "none", res |-> "none", rec |-> 0, done |-> FALSE,
          sent |-> <<>>]

\* the operating systems the Makefile builds the binary for
Builds == {"linux", "windows", "darwin"}

\* NewRuntimeManager, in a binary built for bin
RtInitOn(bin) ==
    /\ instState = [h \in Handles |-> "none"]
    /\ processes = <<>>
    /\ recs = <<>>
    /\ stop = [t \in Stoppers |-> StopIdle]
    /\ ret = NoRet
    /\ goos = bin

RtInit == RtInitOn("linux")

\* Manager.Create returns a handle in state stopped
Create(h) ==
    /\ instState[h] = "none"
    /\ instState' = [instState EXCEPT ![h] = StateStopped]
    /\ ret' = [NoRet EXCEPT !.op = "Create", !.arg = h, !.res = "nil"]
    /\ UNCHANGED <<processes, recs, stop, nonRtVars>>

\* the InstanceProcess Start builds, with its waiter about to call cmd.Wait
NewProc(h) ==
    [inst |-> h, os |-> "running", code |-> "none", wpc |-> "wait",
     done |-> FALSE, logOpen |-> TRUE, killed |-> FALSE, wrote |-> "none"]

StartReturn(h, res) == ret' = [NoRet EXCEPT !.op = "Start", !.arg = h, !.res = res]

\* Start past the already-running check: spawn, store the record, set the state
StartSpawn(h) ==
    /\ Len(recs) < MaxStarts
    /\ \/ \* ensureRuntime, opening the log file or cmd.Start failed
          /\ StartReturn(h, "error")
          /\ UNCHANGED <<instState, processes, recs, stop, nonRtVars>>
       \/ /\ recs' = Append(recs, NewProc(h))
          /\ processes' = [n \in (DOMAIN processes) \cup {HandleName[h]} |->
                              IF n = HandleName[h] THEN Len(recs) + 1 ELSE processes[n]]
          /\ instState' = [instState EXCEPT ![h] = StateRunning]
          /\ StartReturn(h, "nil")
          /\ UNCHANGED <<stop, nonRtVars>>

\* a Start that forgets the already-running check
StartUnguarded(h) ==
    /\ instState[h] # "none"
    /\ StartSpawn(h)

\* RuntimeManager.Start: the whole body runs under rm.mu
Start(h) ==
    /\ instState[h] # "none"
    /\ IF HandleName[h] \in DOMAIN processes
       THEN /\ StartReturn(h, "already running")
            /\ UNCHANGED <<instState, processes, recs, stop, nonRtVars>>
       ELSE StartSpawn(h)

\* the engine process ends, by itself or because of a signal it received
\* (a process that was sent SIGKILL does not end cleanly)
ProcExit(r) ==
    /\ recs[r].os = "running"
    /\ \E c \in {"clean", "fail"} :
          /\ recs[r].killed => c = "fail"
          /\ recs' = [recs EXCEPT ![r].os = "exited", ![r].code = c]
    /\ ret' = NoRet
    /\ UNCHANGED <<instState, processes, stop, nonRtVars>>

\* waiter: cmd.Wait() returns once the process has ended
WaiterWait(r) ==
    /\ recs[r].wpc = "wait"
    /\ recs[r].os = "exited"
    /\ recs' = [recs EXCEPT ![r].os = "reaped", ![r].wpc = "delete"]
    /\ ret' = NoRet
    /\ UNCHANGED <<instState, processes, stop, nonRtVars>>

\* waiter: rm.mu.Lock(); delete(rm.processes, name); rm.mu.Unlock()
WaiterDelete(r) ==
    /\ recs[r].wpc = "delete"
    /\ processes' = [n \in (DOMAIN processes) \ {HandleName[recs[r].inst]} |-> processes[n]]
    /\ recs' = [recs EXCEPT ![r].wpc = "setState"]
    /\ ret' = NoRet
    /\ UNCHANGED <<instState, stop, nonRtVars>>

\* the state the waiter records for an exit
ExitState(code) == IF code = "fail" THEN StateError ELSE StateStopped

\* waiter: inst.State = StateError / StateStopped, outside the lock
WaiterSetState(r) ==
    /\ recs[r].wpc = "setState"
    /\ instState' = [instState EXCEPT ![recs[r].inst] = ExitState(recs[r].code)]
    /\ recs' = [recs EXCEPT ![r].wpc = "closeLog", ![r].wrote = instState'[recs[r].inst]]
    /\ ret' = NoRet
    /\ UNCHANGED <<processes, stop, nonRtVars>>

\* a waiter that leaves the log file open
WaiterLeaveLog(r) ==
    /\ recs[r].wpc = "closeLog"
    /\ recs' = [recs EXCEPT ![r].wpc = "closeDone"]
    /\ ret' = NoRet
    /\ UNCHANGED <<instState, processes, stop, nonRtVars>>

\* waiter: deferred logFile.Close()
WaiterCloseLog(r) ==
    /\ recs[r].wpc = "closeLog"
    /\ recs' = [recs EXCEPT ![r].logOpen = FALSE, ![r].wpc = "closeDone"]
    /\ ret' = NoRet
    /\ UNCHANGED <<instState, processes, stop, nonRtVars>>

\* waiter: deferred close(proc.Done)
WaiterCloseDone(r) ==
    /\ recs[r].wpc = "closeDone"
    /\ recs' = [recs EXCEPT ![r].done = TRUE, ![r].wpc = "end"]
    /\ ret' = NoRet
    /\ UNCHANGED <<instState, processes, stop, nonRtVars>>

\* Stop returns res: the record it found, whether that record's proc.Done is
\* closed at this instant, and the signals this call sent
StopReturn(t, n, res) ==
    /\ ret' = [op |-> "Stop", arg |-> n, res |-> res, rec |-> stop[t].rec,
               done |-> recs[stop[t].rec].done, sent |-> stop[t].sent]
    /\ stop' = [stop EXCEPT ![t] = StopIdle]

\* a Stop that answers nil for a name that has no record
StopLookupQuiet(t, n) ==
    /\ stop[t].pc = "idle"
    /\ IF n \in DOMAIN processes
       THEN /\ stop' = [stop EXCEPT ![t].pc = "signal", ![t].rec = processes[n]]
            /\ ret' = NoRet
       ELSE /\ ret' = [NoRet EXCEPT !.op = "Stop", !.arg = n, !.res = "nil"]
            /\ UNCHANGED stop
    /\ UNCHANGED <<instState, processes, recs, nonRtVars>>

\* Stop: look the record up under the lock
StopLookup(t, n) ==
    /\ stop[t].pc = "idle"
    /\ IF n \in DOMAIN processes
       THEN /\ stop' = [stop EXCEPT ![t].pc = "signal", ![t].rec = processes[n]]
            /\ ret' = NoRet
       ELSE /\ ret' = [NoRet EXCEPT !.op = "Stop", !.arg = n, !.res = "not running"]
            /\ UNCHANGED <<stop, nonRtVars>>
    /\ UNCHANGED <<instState, processes, recs, nonRtVars>>

\* WaitFor: look the record up under the read lock
WaitForLookup(t, n) ==
    /\ stop[t].pc = "idle"
    /\ IF n \in DOMAIN processes
       THEN /\ stop' = [stop EXCEPT ![t].pc = "waitFor", ![t].rec = processes[n]]
            /\ ret' = NoRet
       ELSE /\ ret' = [NoRet EXCEPT !.op = "WaitFor", !.arg = n, !.res = "not running"]
            /\ UNCHANGED stop
    /\ UNCHANGED <<instState, processes, recs, nonRtVars>>

\* WaitFor: <-proc.Done, then return nil
WaitForDone(t) ==
    /\ stop[t].pc = "waitFor"
    /\ recs[stop[t].rec].done
    /\ ret' = [op |-> "WaitFor", arg |-> HandleName[recs[stop[t].rec].inst], res |-> "nil",
               rec |-> stop[t].rec, done |-> TRUE, sent |-> <<>>]
    /\ stop' = [stop EXCEPT ![t] = StopIdle]
    /\ UNCHANGED <<instState, processes, recs, nonRtVars>>

StopName(t) == HandleName[recs[stop[t].rec].inst]

GracefulSignal(r) == IF HandleHeadless[recs[r].inst] THEN "SIGTERM" ELSE "SIGINT"

\* os.Process.Signal / Kill: the signal is sent while the process has not been
\* waited for (running, or ended and not yet reaped by cmd.Wait); once Wait has
\* returned they fail with ErrProcessDone
SignalOutcomes(r) ==
    IF recs[r].os \in {"running", "exited"} THEN {"sent"} ELSE {"ErrProcessDone"}

\* os.Process.Signal with SIGTERM or SIGINT: Go implements no signal but Kill
\* for a Windows binary and returns EWINDOWS there
GracefulOutcomes(r) == IF goos = "windows" THEN {"EWINDOWS"} ELSE SignalOutcomes(r)

\* gracefulStop: send SIGTERM / SIGINT
StopSignal(t) ==
    /\ stop[t].pc = "signal"
    /\ LET r == stop[t].rec IN
       \E o \in GracefulOutcomes(r) :
          IF o = "sent"
          THEN stop' = [stop EXCEPT ![t].pc = "grace",
                                    ![t].sent = Append(@, GracefulSignal(r))]
          ELSE stop' = [stop EXCEPT ![t].pc = "kill"]
    /\ ret' = NoRet
    /\ UNCHANGED <<instState, processes, recs, nonRtVars>>

\* gracefulStop: the select sees proc.Done closed; Stop then passes <-proc.Done
StopGraceDone(t) ==
    /\ stop[t].pc = "grace"
    /\ recs[stop[t].rec].done
    /\ StopReturn(t, StopName(t), "nil")
    /\ UNCHANGED <<instState, processes, recs, nonRtVars>>

\* gracefulStop: the 10 s timer fires first
StopGraceTimeout(t) ==
    /\ stop[t].pc = "grace"
    /\ stop' = [stop EXCEPT ![t].pc = "kill"]
    /\ ret' = NoRet
    /\ UNCHANGED <<instState, processes, recs, nonRtVars>>

\* Stop after gracefulStop failed: proc.Cmd.Process.Kill(), whose error is
\* returned at once
StopKill(t) ==
    /\ stop[t].pc = "kill"
    /\ LET r == stop[t].rec IN
       \E o \in SignalOutcomes(r) :
          IF o = "sent"
          THEN /\ recs' = [recs EXCEPT ![r].killed = (@ \/ recs[r].os = "running")]
               /\ stop' = [stop EXCEPT ![t].pc = "waitDone",
                                       ![t].sent = Append(@, "SIGKILL")]
               /\ ret' = NoRet
          ELSE /\ StopReturn(t, StopName(t), "killing process")
               /\ UNCHANGED recs
    /\ UNCHANGED <<instState, processes, nonRtVars>>

\* Stop: <-proc.Done, then return nil
StopWaitDone(t) ==
    /\ stop[t].pc = "waitDone"
    /\ recs[stop[t].rec].done
    /\ StopReturn(t, StopName(t), "nil")
    /\ UNCHANGED <<instState, processes, recs, nonRtVars>>

\* an IsRunning that reads the instance state instead of the process map
IsRunningByState(n) == \E h \in Handles : HandleName[h] = n /\ instState[h] = StateRunning

\* RuntimeManager.IsRunning
IsRunning(n) == n \in DOMAIN processes

\* RuntimeManager.ListRunning: the names in map iteration order, which Go leaves open
ListRunning == SetToSeqs(DOMAIN processes)

\* the records whose waiter has not yet removed them from the map
LiveRecs == {r \in DOMAIN recs : recs[r].wpc \in {"wait", "delete"}}

(***************************************************************************)
(* LOG SUBSYSTEM                                                           *)
(***************************************************************************)
MaxBytes == 4       \* bytes in all the log files of the instance together
MaxRotations == 1   \* RotateLogs calls that rotate
MaxFileSize == 2    \* lm.maxFileSize as set with SetMaxFileSize
MaxFiles == 2       \* lm.maxFiles as set with SetMaxFiles

LogHandlers == {"f", "g"}
\* what one write of the engine, or of another writer of the log, appends
Chunks == {<<"a">>, <<"\n">>}
\* what factorio.log holds before anything is observed
InitialLogs == {<<>>, <<"a", "\n">>}

\* no StreamLogs call yet.  snap is what the goroutine's handlers slice shows,
\* shared whether that slice still lies in the array of lm.handlers; stayed
\* and got follow the line being delivered: the handlers registered since it
\* was scanned, and the handlers called with it
StreamOff == [pc |-> "off", file |-> 0, off |-> 0, buf |-> <<>>, eof |-> FALSE,
              pos |-> 0, line |-> <<>>, snap |-> <<>>, idx |-> 0,
              ctx |-> "live", open |-> FALSE, shared |-> FALSE,
              stayed |-> {}, got |-> <<>>]

\* the log subsystem before any call, the log file absent
LogParked ==
    /\ files = <<>>
    /\ paths = [i \in 1..(MaxFiles + 1) |-> 0]
    /\ handlers = <<>>
    /\ hcap = 0
    /\ delivered = [h \in LogHandlers |-> <<>>]
    /\ stream = StreamOff
    /\ appended = [h \in LogHandlers |-> <<>>]
    /\ cleanSub = {}

\* NewLogManager, with a factorio.log already written by the engine
LogInit ==
    /\ \E c \in InitialLogs : files = <<c>>
    /\ paths = [i \in 1..(MaxFiles + 1) |-> IF i = 1 THEN 1 ELSE 0]
    /\ handlers = <<>>
    /\ hcap = 0
    /\ delivered = [h \in LogHandlers |-> <<>>]
    /\ stream = StreamOff
    /\ appended = [h \in LogHandlers |-> <<>>]
    /\ cleanSub = {}

RECURSIVE SumLen(_, _)
SumLen(fs, i) == IF i = 0 THEN 0 ELSE Len(fs[i]) + SumLen(fs, i - 1)

\* position of the first newline of s, 0 if it has none
FirstNL(s) ==
    IF \E i \in DOMAIN s : s[i] = "\n"
    THEN CHOOSE i \in DOMAIN s : s[i] = "\n" /\ \A j \in 1..(i - 1) : s[j] # "\n"
    ELSE 0

\* bufio.dropCR
DropCR(s) == IF Len(s) > 0 /\ s[Len(s)] = "\r" THEN SubSeq(s, 1, Len(s) - 1) ELSE s

RECURSIVE Scan(_, _, _, _)
\* bufio.Scanner.Scan with bufio.ScanLines over a file holding content, the
\* file offset at off, the scanner holding buf and having seen EOF or not
Scan(buf, eof, off, content) ==
    LET nl == FirstNL(buf) IN
    IF nl > 0
    THEN [ok |-> TRUE, line |-> DropCR(SubSeq(buf, 1, nl - 1)),
          buf |-> SubSeq(buf, nl + 1, Len(buf)), eof |-> eof, off |-> off]
    ELSE IF eof
    THEN IF buf # <<>>
         THEN [ok |-> TRUE, line |-> DropCR(buf), buf |-> <<>>, eof |-> TRUE, off |-> off]
         ELSE [ok |-> FALSE, line |-> <<>>, buf |-> <<>>, eof |-> TRUE, off |-> off]
    ELSE IF off >= Len(content)
    THEN Scan(buf, TRUE, off, content)
    ELSE Scan(buf \o SubSeq(content, off + 1, Len(content)), FALSE, Len(content), content)

\* LogManager.parseLine: the Raw field of the entry built from a line
ParseLineRaw(line) == line

RECURSIVE Lines(_)
\* the complete lines of a byte sequence, without their line ends
Lines(s) ==
    LET nl == FirstNL(s) IN
    IF nl = 0 THEN <<>>
    ELSE <<DropCR(SubSeq(s, 1, nl - 1))>> \o Lines(SubSeq(s, nl + 1, Len(s)))

IsPrefix(a, b) == Len(a) <= Len(b) /\ SubSeq(b, 1, Len(a)) = a

\* a writer appends one chunk to the file at factorio.log
AppendLog(c) ==
    /\ paths[1] # 0
    /\ SumLen(files, Len(files)) + Len(c) <= MaxBytes
    /\ files' = [files EXCEPT ![paths[1]] = @ \o c]
    /\ appended' = [h \in LogHandlers |->
                       IF h \in cleanSub /\ stream.pc # "off"
                       THEN appended[h] \o c ELSE <<>>]
    /\ cleanSub' = IF stream.pc = "off" THEN {} ELSE cleanSub
    /\ UNCHANGED <<paths, handlers, hcap, delivered, stream, nonLogVars>>

\* what fmt.Sprintf("%p", h) prints for a handler: the address of the code of
\* the function literal it was made from; g2 is a second closure of g's literal
CodePointer(h) == IF h = "g2" THEN "g" ELSE h

\* Unsubscribe: the first index whose handler prints like h, 0 if there is none
FirstMatch(hs, h) ==
    IF \E k \in DOMAIN hs : CodePointer(hs[k]) = CodePointer(h)
    THEN CHOOSE k \in DOMAIN hs :
             /\ CodePointer(hs[k]) = CodePointer(h)
             /\ \A j \in 1..(k - 1) : CodePointer(hs[j]) # CodePointer(h)
    ELSE 0

\* Unsubscribe: append(handlers[:i], handlers[i+1:]...)
Unsubscribed(hs, h) ==
    LET i == FirstMatch(hs, h)
    IN IF i = 0 THEN hs ELSE SubSeq(hs, 1, i - 1) \o SubSeq(hs, i + 1, Len(hs))

\* append in Unsubscribe moves the elements after i down inside the array:
\* what a slice view of the same array shows afterwards
ShiftedView(view, hs, i) ==
    [k \in DOMAIN view |-> IF k >= i /\ k < Len(hs) THEN hs[k + 1] ELSE view[k]]

\* append in Subscribe: the capacity of the array that holds one more element
Grown(c) == IF c = 0 THEN 1 ELSE 2 * c

\* LogManager.Subscribe: append writes into the array when it has room, and
\* into a new array otherwise
Subscribe(h) ==
    /\ h \notin Range(handlers)
    /\ handlers' = Append(handlers, h)
    /\ IF Len(handlers) < hcap
       THEN /\ hcap' = hcap
            /\ stream' = IF stream.shared /\ Len(handlers) + 1 \in DOMAIN stream.snap
                         THEN [stream EXCEPT !.snap[Len(handlers) + 1] = h]
                         ELSE stream
       ELSE /\ hcap' = Grown(hcap)
            /\ stream' = [stream EXCEPT !.shared = FALSE]
    /\ appended' = [appended EXCEPT ![h] = <<>>]
    /\ delivered' = [delivered EXCEPT ![h] = <<>>]
    /\ cleanSub' = IF stream.pc = "off" THEN cleanSub \cup {h} ELSE cleanSub
    /\ UNCHANGED <<files, paths, nonLogVars>>

\* LogManager.Unsubscribe: removes the first registration that prints like the
\* handler, in place, and deletes the key of an empty list
Unsubscribe(h) ==
    /\ h \in Range(handlers)
    /\ LET i == FirstMatch(handlers, h)
           rest == Unsubscribed(handlers, h)
       IN /\ handlers' = rest
          /\ hcap' = IF rest = <<>> THEN 0 ELSE hcap
          /\ stream' = [stream EXCEPT
                           !.snap = IF stream.shared THEN ShiftedView(@, handlers, i) ELSE @,
                           !.shared = @ /\ rest # <<>>,
                           !.stayed = @ \ {handlers[i]}]
          /\ cleanSub' = cleanSub \ {handlers[i]}
          /\ appended' = [appended EXCEPT ![handlers[i]] = <<>>]
    /\ UNCHANGED <<files, paths, delivered, nonLogVars>>

\* LogManager.StreamLogs up to its return: open the file, seek to its end,
\* create the scanner, start the goroutine
StreamLogs ==
    /\ stream.pc = "off"
    /\ paths[1] # 0
    /\ stream' = [StreamOff EXCEPT !.pc = "loop", !.file = paths[1],
                                   !.off = Len(files[paths[1]]),
                                   !.pos = Len(files[paths[1]]),
                                   !.open = TRUE]
    /\ UNCHANGED <<files, paths, handlers, hcap, delivered, appended, cleanSub, nonLogVars>>

\* a goroutine that never finds the context done
CancelledNever(s) == FALSE

\* the goroutine's select: whether ctx.Done() is closed
Cancelled(s) == s.ctx = "cancelled"

\* one iteration of the goroutine's loop in which scanner.Scan() returns a
\* line: advance currentPos and take the handler list under the read lock
StreamScan ==
    /\ stream.pc = "loop"
    /\ ~Cancelled(stream)
    /\ LET r == Scan(stream.buf, stream.eof, stream.off, files[stream.file]) IN
       /\ r.ok
       /\ stream' = [stream EXCEPT !.buf = r.buf, !.eof = r.eof, !.off = r.off,
                                   !.pos = @ + Len(r.line) + 1,
                                   !.line = r.line, !.snap = handlers,
                                   !.shared = handlers # <<>>,
                                   !.stayed = Range(handlers),
                                   !.got = <<>>,
                                   !.idx = 1,
                                   !.pc = IF handlers = <<>> THEN "loop" ELSE "deliver"]
    /\ UNCHANGED <<files, paths, handlers, hcap, delivered, appended, cleanSub, nonLogVars>>

\* the goroutine calls the next handler of the list it took
StreamDeliver ==
    /\ stream.pc = "deliver"
    /\ delivered' = [delivered EXCEPT ![stream.snap[stream.idx]] =
                        Append(@, ParseLineRaw(stream.line))]
    /\ stream' = IF stream.idx = Len(stream.snap)
                 THEN [stream EXCEPT !.pc = "loop", !.snap = <<>>, !.idx = 0, !.line = <<>>,
                                     !.shared = FALSE, !.stayed = {}, !.got = <<>>]
                 ELSE [stream EXCEPT !.idx = @ + 1, !.got = Append(@, stream.snap[stream.idx])]
    /\ UNCHANGED <<files, paths, handlers, hcap, appended, cleanSub, nonLogVars>>

\* one iteration in which scanner.Scan() returns false at EOF: stat the open
\* file; if it grew past currentPos, seek there with a fresh scanner, else sleep
StreamPoll ==
    /\ stream.pc = "loop"
    /\ ~Cancelled(stream)
    /\ LET r == Scan(stream.buf, stream.eof, stream.off, files[stream.file]) IN
       /\ ~r.ok
       /\ IF Len(files[stream.file]) > stream.pos
          THEN stream' = [stream EXCEPT !.off = stream.pos, !.buf = <<>>, !.eof = FALSE]
          ELSE stream' = [stream EXCEPT !.buf = r.buf, !.eof = r.eof, !.off = r.off]
    /\ UNCHANGED <<files, paths, handlers, hcap, delivered, appended, cleanSub, nonLogVars>>

\* the caller cancels the context it gave to StreamLogs
Cancel ==
    /\ stream.pc \in {"loop", "deliver"}
    /\ stream.ctx = "live"
    /\ stream' = [stream EXCEPT !.ctx = "cancelled"]
    /\ UNCHANGED <<files, paths, handlers, hcap, delivered, appended, cleanSub, nonLogVars>>

\* the iteration whose select finds ctx.Done() closed: the goroutine returns
\* and its deferred file.Close() runs
StreamStop ==
    /\ stream.pc = "loop"
    /\ Cancelled(stream)
    /\ stream' = [stream EXCEPT !.pc = "stopped", !.open = FALSE]
    /\ UNCHANGED <<files, paths, handlers, hcap, delivered, appended, cleanSub, nonLogVars>>

\* RotateLogs: no rotation while info.Size() < lm.maxFileSize
RotateNeeded(size) == ~(size < MaxFileSize)

\* a rotation that renames the current log over log.1 and moves nothing else
RotatedOver(ps, new) ==
    [i \in 1..(MaxFiles + 1) |-> IF i = 1 THEN new ELSE IF i = 2 THEN ps[1] ELSE ps[i]]

\* RotateLogs past its size check: log.<maxFiles> is removed, log.i renamed to
\* log.i+1 from the oldest down, factorio.log renamed to log.1, and the new
\* empty file new written at factorio.log
Rotated(ps, new) ==
    [i \in 1..(MaxFiles + 1) |-> IF i = 1 THEN new ELSE ps[i - 1]]

\* LogManager.RotateLogs, followed while no more than cap files were created
RotateLogsUpTo(cap) ==
    /\ paths[1] # 0
    /\ RotateNeeded(Len(files[paths[1]]))
    /\ Len(files) <= cap
    /\ files' = Append(files, <<>>)
    /\ paths' = Rotated(paths, Len(files) + 1)
    /\ UNCHANGED <<handlers, hcap, delivered, stream, appended, cleanSub, nonLogVars>>

\* LogManager.RotateLogs
RotateLogs == RotateLogsUpTo(MaxRotations)

\* what a rotated log may hold when the manager is created
OldLogs == {<<"a">>, <<"\n">>}

\* NewLogManager for an instance that has rotated logs from earlier runs: the
\* file of slot i is files[i], and a slot without a file has path 0
RotateInit ==
    /\ files \in [1..(MaxFiles + 1) -> InitialLogs \cup OldLogs]
    /\ files[1] \in InitialLogs
    /\ SumLen(files, Len(files)) <= MaxBytes
    /\ paths \in [1..(MaxFiles + 1) -> 0..(MaxFiles + 1)]
    /\ paths[1] = 1
    /\ \A i \in 2..(MaxFiles + 1) :
           /\ paths[i] \in {0, i}
           /\ paths[i] = i <=> files[i] \in OldLogs
           /\ paths[i] = 0 => files[i] = <<>>
    /\ handlers = <<>>
    /\ hcap = 0
    /\ delivered = [h \in LogHandlers |-> <<>>]
    /\ stream = StreamOff
    /\ appended = [h \in LogHandlers |-> <<>>]
    /\ cleanSub = {}

\* the engine writes and the logs are rotated; nobody streams
RotateNext ==
    \/ \E c \in Chunks : AppendLog(c)
    \/ RotateLogsUpTo(MaxFiles + MaxRotations)

LogNext ==
    \/ \E c \in Chunks : AppendLog(c)
    \/ \E h \in LogHandlers : Subscribe(h)
    \/ \E h \in LogHandlers : Unsubscribe(h)
    \/ StreamLogs
    \/ StreamScan
    \/ StreamDeliver
    \/ StreamPoll
    \/ RotateLogs

\* the goroutine StreamLogs starts
StreamRun == StreamScan \/ StreamDeliver \/ StreamPoll \/ StreamStop

\* streaming with handlers coming and going, until the context is cancelled
StreamNext ==
    \/ \E c \in Chunks : AppendLog(c)
    \/ \E h \in LogHandlers : Subscribe(h)
    \/ \E h \in LogHandlers : Unsubscribe(h)
    \/ StreamLogs
    \/ StreamScan
    \/ StreamDeliver
    \/ StreamPoll
    \/ Cancel
    \/ StreamStop

\* streaming to the handlers that subscribe, until the context is cancelled
CancelNext ==
    \/ \E c \in Chunks : AppendLog(c)
    \/ \E h \in LogHandlers : Subscribe(h)
    \/ StreamLogs
    \/ StreamScan
    \/ StreamDeliver
    \/ StreamPoll
    \/ Cancel
    \/ StreamStop

(***************************************************************************)
(* MOD INSTALLER                                                           *)
(* Strings that the code takes apart (mod names, dependency lines, file    *)
(* names) are sequences of one-character strings; factorio versions are    *)
(* sequences of numbers.                                                   *)
(***************************************************************************)
MaxEnabled == 2   \* length of Config.Mods.Enabled
MaxIter == 8      \* iterations of the install loop that are followed

ModA == <<"a">>
ModB == <<"b">>
ModAB == <<"a", "_", "b">>
ModC == <<"c">>
ModBase == <<"b", "a", "s", "e">>
ModElevatedRails == <<"e", "l", "e", "v", "a", "t", "e", "d", "-", "r", "a", "i", "l", "s">>
ModQuality == <<"q", "u", "a", "l", "i", "t", "y">>
ModSpaceAge == <<"s", "p", "a", "c", "e", "-", "a", "g", "e">>
\* a mod of the portal whose name begins with the name of a built-in mod
ModQualityX == ModQuality \o <<"_", "x">>
\* the names a configuration may enable
ModNames == {ModA, ModB, ModAB, ModBase}
SourceNames == {"s1", "s2"}
\* Config.Version of the instance
InstVersion == <<2, 0>>

\* strings.HasPrefix
HasPrefix(s, p) == Len(p) <= Len(s) /\ SubSeq(s, 1, Len(p)) = p

\* strings.Index, counted from 1; 0 where Go returns -1
Index(s, sub) ==
    LET first(hits) == IF hits = {} THEN 0 ELSE CHOOSE i \in hits : \A j \in hits : i <= j
    IN CHOOSE r \in {first(hits) :
                        hits \in {{i \in 1..(Len(s) - Len(sub) + 1) :
                                      SubSeq(s, i, i + Len(sub) - 1) = sub}}} : TRUE

\* strings.Contains
Contains(s, sub) == Index(s, sub) > 0

RECURSIVE TrimLeft(_)
TrimLeft(s) == IF s # <<>> /\ s[1] = " " THEN TrimLeft(Tail(s)) ELSE s

RECURSIVE TrimRight(_)
TrimRight(s) ==
    IF s # <<>> /\ s[Len(s)] = " " THEN TrimRight(SubSeq(s, 1, Len(s) - 1)) ELSE s

\* strings.TrimSpace
TrimSpace(s) == TrimRight(TrimLeft(s))

\* strings.SplitN(s, sep, 2)[0] for an s that contains sep
BeforeSep(s, sep) == SubSeq(s, 1, Index(s, sep) - 1)

\* strings.Fields(s)[0], the empty string when s has no field
FirstField(s) ==
    LET t == TrimLeft(s)
        sp == Index(t, <<" ">>)
    IN IF sp = 0 THEN t ELSE SubSeq(t, 1, sp - 1)

RECURSIVE Match(_, _)
\* filepath.Match for patterns made of literal characters, ? and *
Match(pattern, name) ==
    \E p \in {pattern}, s \in {name} :
        IF p = <<>> THEN s = <<>>
        ELSE IF p[1] = "*"
        THEN \E k \in 0..Len(s) : Match(Tail(p), SubSeq(s, k + 1, Len(s)))
        ELSE /\ s # <<>>
             /\ (p[1] = "?" \/ p[1] = s[1])
             /\ Match(Tail(p), Tail(s))

\* a mod archive: what info.json in the zip says
Arch(n, v, fv, deps) == [name |-> n, version |-> v, fv |-> fv, deps |-> deps]

\* name of the file an archive is written to: <Name>_<Version>.zip
FileName(f) == f.name \o <<"_">> \o f.version \o <<".", "z", "i", "p">>

\* filepath.Glob(mods/<modName>_*.zip)
Glob(fs, modName) ==
    {f \in fs : Match(modName \o <<"_", "*", ".", "z", "i", "p">>, FileName(f))}

\* the answer of a broken isModInstalled that never finds a file
isModInstalledNever(fs, modName) == FALSE

\* ModManager.isModInstalled
isModInstalled(fs, modName) == Glob(fs, modName) # {}

\* isBuiltinMod: builtinMods
BuiltinMods == {ModBase, ModElevatedRails, ModQuality, ModSpaceAge}

\* isBuiltinMod
isBuiltinMod(modName) == modName \in BuiltinMods

\* normalizeFactorioVersion
normalizeFactorioVersion(v) == IF Len(v) = 2 THEN Append(v, 0) ELSE v

\* isVersionCompatible: semver.Parse takes exactly major.minor.patch
isVersionCompatible(factorioVersion, modVersion) ==
    LET fv == normalizeFactorioVersion(factorioVersion)
        mv == normalizeFactorioVersion(modVersion)
    IN Len(fv) = 3 /\ Len(mv) = 3 /\ fv[1] = mv[1] /\ fv[2] = mv[2]

\* install paths that skip the version check
CompatibleUnchecked(arch) == TRUE

\* the version check the install paths share
Compatible(arch) == arch.fv = <<>> \/ isVersionCompatible(InstVersion, arch.fv)

\* a getModDependencies that only skips lines beginning with base
SkippedDepBaseOnly(dep) == HasPrefix(dep, ModBase)

\* getModDependencies: the lines it skips before parsing
SkippedDep(dep) ==
    \/ HasPrefix(dep, ModBase)
    \/ HasPrefix(dep, <<"?">>)
    \/ HasPrefix(dep, <<"!">>)
    \/ HasPrefix(dep, <<"(", "?", ")">>)

\* getModDependencies: the part of a line before its first version operator
BeforeOperator(dep) ==
    LET GE == <<" ", ">", "=", " ">>
        LE == <<" ", "<", "=", " ">>
        EQ == <<" ", "=", " ">>
        GT == <<" ", ">", " ">>
        LT == <<" ", "<", " ">>
    IN IF Contains(dep, GE) THEN TrimSpace(BeforeSep(dep, GE))
       ELSE IF Contains(dep, LE) THEN TrimSpace(BeforeSep(dep, LE))
       ELSE IF Contains(dep, EQ) THEN TrimSpace(BeforeSep(dep, EQ))
       ELSE IF Contains(dep, GT) THEN TrimSpace(BeforeSep(dep, GT))
       ELSE IF Contains(dep, LT) THEN TrimSpace(BeforeSep(dep, LT))
       ELSE TrimSpace(dep)

\* getModDependencies: the mod name of a line that is not skipped
DepName(dep) ==
    LET name(first) == IF first = <<>> THEN <<>>
                       ELSE IF HasPrefix(first, <<"~">>) THEN TrimSpace(Tail(first))
                       ELSE TrimSpace(first)
    IN CHOOSE r \in {name(first) : first \in {BeforeOperator(dep)}} : TRUE

RECURSIVE DepEntries(_)
\* getModDependencies over the dependency lines of a mod: the names it
\* returns, each with the line it came from
DepEntries(lines) ==
    IF lines = <<>> THEN <<>>
    ELSE LET entry(dep, name) ==
                 IF SkippedDep(dep) \/ name = <<>> THEN <<>>
                 ELSE <<[name |-> name, line |-> dep]>>
         IN (CHOOSE r \in {entry(dep, DepName(dep)) : dep \in {Head(lines)}} : TRUE)
            \o DepEntries(Tail(lines))

\* ModManager.getModDependencies: from the cached info, else from a file on
\* disk; {} stands for its error
getModDependencies(infos, fs, modName) ==
    IF modName \in DOMAIN infos THEN {DepEntries(infos[modName].deps)}
    ELSE {DepEntries(f.deps) : f \in Glob(fs, modName)}

\* os.WriteFile of an archive into mods/
WriteFile(fs, arch) == {f \in fs : FileName(f) # FileName(arch)} \cup {arch}

\* an updateModList whose loop sets every entry, whatever its name
updateModListAny(list, modName, on) ==
    IF list # <<>>
    THEN [i \in DOMAIN list |-> [list[i] EXCEPT !.enabled = on]]
    ELSE IF on THEN Append(list, [name |-> modName, enabled |-> TRUE]) ELSE list

\* ModManager.updateModList(inst, modName, enabled): the first entry of that
\* name is set, and a missing entry is appended only when enabling
updateModList(list, modName, on) ==
    IF \E i \in DOMAIN list : list[i].name = modName
    THEN LET i == CHOOSE k \in DOMAIN list :
                      list[k].name = modName /\ \A j \in 1..(k - 1) : list[j].name # modName
         IN [list EXCEPT ![i].enabled = on]
    ELSE IF on THEN Append(list, [name |-> modName, enabled |-> TRUE]) ELSE list

RECURSIVE CreateModList(_)
\* Manager.Create: the mod-list entries for the enabled mods
CreateModList(en) ==
    IF en = <<>> THEN <<>>
    ELSE (IF Head(en) # ModBase THEN <<[name |-> Head(en), enabled |-> TRUE]>> ELSE <<>>)
         \o CreateModList(Tail(en))

\* dependency lists an archive of a may carry
DepsA == {<<>>,
          <<ModB>>,
          <<ModA>>,
          <<<<"?", " ", "b">>>>,
          <<<<"!", " ", "b">>, <<"(", "?", ")", " ", "b">>>>,
          <<<<"b", "a", "s", "e", " ", ">", "=", " ", "2">>, <<"~", " ", "b">>>>,
          <<<<"b", " ", ">", "=", " ", "1">>, ModB>>}
\* dependency lists an archive of b may carry
DepsB == {<<>>, <<ModA>>, <<ModB>>}

\* what the configured sources and the portal offer, for given dependency lists
Worlds(da, db) ==
    {[sources |-> [s \in SourceNames |->
                      IF s = "s1"
                      THEN {Arch(ModA, <<"1">>, <<2, 0>>, da), Arch(ModB, <<"1">>, <<>>, db),
                            Arch(ModAB, <<"1">>, <<2, 0, 1>>, <<>>)}
                      ELSE {}],
      portal |-> {}],
     [sources |-> [s \in SourceNames |->
                      IF s = "s1" THEN {Arch(ModA, <<"1">>, <<1, 1>>, da)}
                      ELSE {Arch(ModA, <<"2">>, <<2, 0>>, da)}],
      portal |-> {Arch(ModB, <<"1">>, <<>>, db)}],
     [sources |-> [s \in SourceNames |->
                      IF s = "s1" THEN {Arch(ModA, <<"1">>, <<2, 0>>, da)}
                      ELSE {Arch(ModA, <<"2">>, <<2, 0>>, da), Arch(ModB, <<"1">>, <<2, 0>>, db)}],
      portal |-> {Arch(ModAB, <<"1">>, <<1, 1>>, <<>>)}],
     [sources |-> [s \in SourceNames |->
                      IF s = "s1" THEN {Arch(ModAB, <<"1">>, <<2, 0>>, <<ModA>>)}
                      ELSE {}],
      portal |-> {}]}

\* what mods/ holds before the run
Disks == {{}, {Arch(ModA, <<"0">>, <<2, 0>>, <<>>)}, {Arch(ModAB, <<"1">>, <<2, 0>>, <<>>)}}

\* archives a direct source specification (github:, git:) may download
DirectArchives ==
    {Arch(ModC, <<"1">>, <<2, 0>>, <<<<"?", " ", "b">>>>),
     Arch(ModC, <<"1">>, <<2, 0>>, <<<<"b", "a", "s", "e", " ", ">", "=", " ", "2">>>>),
     Arch(ModC, <<"1">>, <<1, 1>>, <<>>),
     Arch(ModQualityX, <<"1">>, <<2, 0>>, <<>>),
     Arch(ModC, <<"1">>, <<2, 0>>, <<ModB>>)}

EnabledLists == UNION {[1..n -> ModNames] : n \in 0..MaxEnabled}

\* the installer before any call
ModParked ==
    /\ enabled = <<>>
    /\ sources = [s \in SourceNames |-> {}]
    /\ portal = {}
    /\ modFiles = {}
    /\ modList = <<>>
    /\ sourceRegistry = {}
    /\ modInfos = <<>>
    /\ installedMods = {}
    /\ installQueue = <<>>
    /\ errors = <<>>
    /\ mpc = "parked"
    /\ mret = "none"
    /\ log = <<>>

\* NewModManager: nothing is configured yet
ModInit ==
    /\ enabled = <<>>
    /\ sources = [s \in SourceNames |-> {}]
    /\ portal = {}
    /\ modFiles = {}
    /\ modList = <<>>
    /\ sourceRegistry = {}
    /\ modInfos = <<>>
    /\ installedMods = {}
    /\ installQueue = <<>>
    /\ errors = <<>>
    /\ mpc = "blank"
    /\ mret = "none"
    /\ log = <<>>

\* handleUp loads the configuration; the sources, the portal and the instance
\* directory hold what they hold
LoadConfig ==
    /\ mpc = "blank"
    /\ enabled' \in EnabledLists
    /\ \E da \in DepsA, db \in DepsB : \E w \in Worlds(da, db) :
          /\ sources' = w.sources
          /\ portal' = w.portal
    /\ modFiles' \in Disks
    /\ mpc' = "new"
    /\ UNCHANGED <<modList, sourceRegistry, modInfos, installedMods, installQueue,
                   errors, mret, log, nonModVars>>

\* handleUp up to the return of Manager.Create: mod-list.json is written with
\* base and every enabled mod that is not base
handleUp ==
    /\ mpc = "new"
    /\ modList' = <<[name |-> ModBase, enabled |-> TRUE]>> \o CreateModList(enabled)
    /\ mpc' = "created"
    /\ UNCHANGED <<enabled, sources, portal, modFiles, sourceRegistry, modInfos,
                   installedMods, installQueue, errors, mret, log, nonModVars>>

\* ModManager.BuildSourceRegistry: the entries of the map from mod name and
\* source name to the archive found for that name in that source
BuildSourceRegistry(srcs) ==
    UNION {{[name |-> a.name, source |-> s, arch |-> a] : a \in srcs[s]} : s \in SourceNames}

\* InstallModsRecursively up to its loop: build the registry, queue modNames
InstallModsRecursively ==
    /\ mpc = "created"
    /\ enabled # <<>>
    /\ sourceRegistry' = BuildSourceRegistry(sources)
    /\ installedMods' = {}
    /\ installQueue' = [i \in DOMAIN enabled |-> [name |-> enabled[i], line |-> <<>>]]
    /\ errors' = <<>>
    /\ mpc' = "loop"
    /\ UNCHANGED <<enabled, sources, portal, modFiles, modList, modInfos, mret, log,
                   nonModVars>>

\* mm.sourceRegistry[modName]: the sources that have the mod
ModSources(modName) == {e.source : e \in {r \in sourceRegistry : r.name = modName}}

\* the orders in which installModFromRegistry may range over the sources of a mod
RegistryOrders(modName) == SetToSeqs(ModSources(modName))

\* ModManager.installModFromRegistry: the archive it installs, {} for an error
installModFromRegistry(modName, order) ==
    LET at(i) == {r.arch : r \in {e \in sourceRegistry :
                                      e.name = modName /\ e.source = order[i]}}
        good == {i \in DOMAIN order : \E a \in at(i) : Compatible(a)}
    IN IF good = {} THEN {}
       ELSE at(CHOOSE i \in good : \A j \in good : i <= j)

\* ModManager.installModFromPortal: the archive it installs, {} for an error
installModFromPortal(modName) ==
    {a \in portal : a.name = modName /\ Compatible(a)}

\* an install loop that takes the head of the queue without removing it
DequeueNothing(q) == q

\* installQueue = installQueue[1:]
Dequeue(q) == Tail(q)

\* a loop that puts the dependencies in front of the queue
EnqueueFront(q, new) == new \o q

\* installQueue = append(installQueue, dep) for the dependencies of one mod
Enqueue(q, new) == q \o new

RECURSIVE QueueDeps(_, _, _)
\* the dependencies the loop appends to the queue: those not yet in the
\* installed set and not the mod itself
QueueDeps(deps, marked, modName) ==
    IF deps = <<>> THEN <<>>
    ELSE (IF Head(deps).name \notin marked /\ Head(deps).name # modName
          THEN <<Head(deps)>> ELSE <<>>)
         \o QueueDeps(Tail(deps), marked, modName)

\* the body of the loop of InstallModsRecursively for the head of the queue:
\* what it leaves in the queue, the installed set, mods/, mod-list.json, the
\* info cache and the errors, and what it did
LoopBody(order) ==
    LET modName == Head(installQueue).name
        rest == Dequeue(installQueue)
        reg == installModFromRegistry(modName, order)
        got == IF reg # {} THEN reg ELSE installModFromPortal(modName)
        same == [queue |-> rest, installed |-> installedMods, files |-> modFiles,
                 list |-> modList, infos |-> modInfos, errs |-> errors, act |-> "none"]
    IN IF modName \in installedMods
       THEN [same EXCEPT !.act = "queued twice"]
       ELSE IF isModInstalled(modFiles, modName)
       THEN [same EXCEPT !.installed = installedMods \cup {modName}, !.act = "on disk"]
       ELSE IF isBuiltinMod(modName)
       THEN [same EXCEPT !.installed = installedMods \cup {modName}, !.act = "builtin"]
       ELSE IF got = {}
       THEN [same EXCEPT !.errs = Append(errors, modName), !.act = "failed"]
       ELSE LET Installed(arch) ==
                    LET infos == (arch.name :> arch) @@ modInfos
                        fs == WriteFile(modFiles, arch)
                        marked == installedMods \cup {modName}
                        deps == getModDependencies(infos, fs, modName)
                        new == IF deps = {} THEN <<>>
                               ELSE CHOOSE q \in {QueueDeps(d, marked, modName) : d \in deps} :
                                       TRUE
                    IN [queue |-> Enqueue(rest, new), installed |-> marked, files |-> fs,
                        list |-> updateModList(modList, arch.name, TRUE), infos |-> infos,
                        errs |-> errors, act |-> "installed"]
            IN CHOOSE r \in {Installed(arch) : arch \in got} : TRUE

\* one iteration of the loop of InstallModsRecursively
InstallLoop(order) ==
    /\ mpc = "loop"
    /\ installQueue # <<>>
    /\ Len(log) < MaxIter
    /\ order \in RegistryOrders(Head(installQueue).name)
    /\ \E r \in {LoopBody(order)}, modName \in {Head(installQueue).name} :
          /\ installQueue' = r.queue
          /\ installedMods' = r.installed
          /\ modFiles' = r.files
          /\ modList' = r.list
          /\ modInfos' = r.infos
          /\ errors' = r.errs
          /\ log' = Append(log, [name |-> modName, line |-> Head(installQueue).line,
                                 act |-> r.act,
                                 had |-> modName \in installedMods
                                           \/ Glob(modFiles, modName) # {}])
    /\ UNCHANGED <<enabled, sources, portal, sourceRegistry, mpc, mret, nonModVars>>

\* InstallModsRecursively returns once the queue is empty
InstallReturn ==
    /\ mpc = "loop"
    /\ installQueue = <<>>
    /\ mpc' = "done"
    /\ mret' = IF Len(errors) > 0 THEN "errors" ELSE "ok"
    /\ UNCHANGED <<enabled, sources, portal, modFiles, modList, sourceRegistry, modInfos,
                   installedMods, installQueue, errors, log, nonModVars>>

\* ModManager.installDependency: TRUE when it returns nil. A dependency that
\* is neither base nor on disk goes to InstallMod("portal:<name>"), and
\* downloadMod refuses every portal: source.
installDependency(fs, dep) ==
    LET modName == FirstField(dep)
    IN /\ modName # <<>>
       /\ (modName = ModBase \/ isModInstalled(fs, modName))

\* ModManager.InstallMod with a direct source specification whose download
\* yields arch (installModFromDirectSource)
InstallMod(arch) ==
    /\ mpc = "done"
    /\ mpc' = "direct"
    /\ IF ~Compatible(arch)
       THEN /\ mret' = "incompatible"
            /\ UNCHANGED <<modInfos, modFiles, modList>>
       ELSE /\ modInfos' = (arch.name :> arch) @@ modInfos
            /\ IF \A i \in DOMAIN arch.deps : installDependency(modFiles, arch.deps[i])
               THEN /\ modFiles' = WriteFile(modFiles, arch)
                    /\ modList' = updateModList(modList, arch.name, TRUE)
                    /\ mret' = "ok"
               ELSE /\ mret' = "installing dependencies"
                    /\ UNCHANGED <<modFiles, modList>>
    /\ UNCHANGED <<enabled, sources, portal, sourceRegistry, installedMods, installQueue,
                   errors, log, nonModVars>>

\* ModManager.InstallMod with the direct source specification portal:<modName>:
\* downloadMod refuses the portal type before anything is fetched
InstallModPortalSpec(modName) ==
    /\ mpc = "done"
    /\ mpc' = "direct"
    /\ mret' = "downloading mod"
    /\ UNCHANGED <<enabled, sources, portal, modFiles, modList, sourceRegistry, modInfos,
                   installedMods, installQueue, errors, log, nonModVars>>

\* names UninstallMod is called with
UninstallNames == {ModA, ModAB, ModC, ModBase, ModQuality}

\* ModManager.UninstallMod on the instance Create made, between or after the
\* installs
UninstallMod(modName) ==
    /\ mpc \in {"created", "done", "direct", "removed"}
    /\ mpc' = "removed"
    /\ IF modName = ModBase
       THEN /\ mret' = "cannot uninstall base mod"
            /\ UNCHANGED <<modFiles, modList>>
       ELSE IF Glob(modFiles, modName) = {}
       THEN /\ mret' = "not found"
            /\ UNCHANGED <<modFiles, modList>>
       ELSE /\ modFiles' = modFiles \ Glob(modFiles, modName)
            /\ modList' = updateModList(modList, modName, FALSE)
            /\ mret' = "ok"
    /\ UNCHANGED <<enabled, sources, portal, sourceRegistry, modInfos, installedMods,
                   installQueue, errors, log, nonModVars>>

ModNext ==
    \/ LoadConfig
    \/ handleUp
    \/ InstallModsRecursively
    \/ \E order \in UNION {SetToSeqs(S) : S \in SUBSET SourceNames} : InstallLoop(order)
    \/ InstallReturn
    \/ \E arch \in DirectArchives : InstallMod(arch)
    \/ \E modName \in {ModB} : InstallModPortalSpec(modName)
    \/ \E modName \in UninstallNames : UninstallMod(modName)

(***************************************************************************)
(* The download cache (mods.go, getCachedDownload .. downloadFromGit)      *)
(*                                                                         *)
(* A repository path is a sequence of characters, a git URL a sequence of  *)
(* tokens, an archive a sequence of file entries; a bytes.Buffer is the    *)
(* concatenation of what was written to it.                                *)
(***************************************************************************)
MaxOps == 3       \* fetches, pushes and removals that are followed
MaxCommits == 2   \* commits a branch of the remote repository goes through

\* the commit after sha on a branch
NextCommit(sha) == sha + 1

\* strings.Split(s, sep) for a one-character sep
RECURSIVE Split(_, _)
Split(s, sep) ==
    LET i == Index(s, <<sep>>)
    IN IF i = 0 THEN <<s>>
       ELSE <<SubSeq(s, 1, i - 1)>> \o Split(SubSeq(s, i + 1, Len(s)), sep)

\* strings.Join(parts, sep)
RECURSIVE Join(_, _)
Join(parts, sep) ==
    IF parts = <<>> THEN <<>>
    ELSE IF Len(parts) = 1 THEN parts[1]
    ELSE parts[1] \o <<sep>> \o Join(Tail(parts), sep)

\* the repository paths given to downloadFromGitHub
GitHubPaths ==
    {<<"u", "/", "r">>,
     <<"u", "/", "r", "/", "m">>,
     <<"u", "/", "r", "@", "d">>,
     <<"u", "/", "r", "@", "d", "@", "x">>}

\* the URLs given to downloadFromGit
GitURLs ==
    {<<"https://github.com/", "u/r">>,
     <<"https://github.com/", "u/r", ".git">>,
     <<"https://example.org/", "u/r">>}

\* the branches of the remote repository; <<>> is the default branch
Branches == {<<>>, <<"d">>}

\* the zip archive a hosting service serves for a commit: one file in folder m
RepoArchive(sha) == <<[folder |-> <<"m">>, data |-> sha]>>

\* the invocations of the program that share <base>/cache/downloads
Invocations == {1, 2}

\* an invocation that is not downloading
DlIdle == [pc |-> "idle", url |-> <<>>, reg |-> <<>>, buf |-> <<>>, written |-> <<>>,
           look |-> "none", out |-> "none"]

\* the cache before any download, in the specifications of the other parts
CacheParked ==
    /\ registry = <<>>
    /\ cacheDir = <<>>
    /\ remote = [b \in Branches |-> 1]
    /\ fetched = <<>>
    /\ dl = [d \in Invocations |-> DlIdle]

\* NewModManager on an empty <base>/cache/downloads
CacheInit ==
    /\ registry = <<>>
    /\ cacheDir = <<>>
    /\ remote = [b \in Branches |-> 1]
    /\ fetched = <<>>
    /\ dl = [d \in Invocations |-> DlIdle]

\* getCachePath: one path per key
getCachePath(url) == <<"sha256">> \o url

\* f without the key k
Without(f, k) == [x \in DOMAIN f \ {k} |-> f[x]]

\* getCachedDownload: whether url is cached, and the registry it leaves
getCachedDownload(url) ==
    IF url \notin DOMAIN registry
    THEN [cached |-> FALSE, registry |-> registry]
    ELSE IF registry[url].FilePath \notin DOMAIN cacheDir
    THEN [cached |-> FALSE, registry |-> Without(registry, url)]
    ELSE [cached |-> TRUE, registry |-> registry]

\* cacheDownload: the registry and the cache directory after storing data
cacheDownload(reg, url, data) ==
    [registry |-> (url :> [URL |-> url, FilePath |-> getCachePath(url), Size |-> Len(data)])
                    @@ reg,
     cacheDir |-> (getCachePath(url) :> data) @@ cacheDir]

\* extractSubfolderFromZip: the archive of the files under subfolder, written
\* to buf after what buf already holds
extractSubfolderFromZip(zipData, subfolder, buf) ==
    LET under == {i \in DOMAIN zipData : zipData[i].folder = subfolder}
        entry(i) == [folder |-> <<>>, data |-> zipData[i].data]
    IN [ok |-> under # {},
        buf |-> buf \o [i \in 1..Cardinality(under) |->
                           entry(CHOOSE k \in under :
                                     Cardinality({j \in under : j < k}) = i - 1)]]

\* what a call leaves in the log: its argument, whether it returned nil, the
\* buffer it filled and the network requests it made
Fetched(op, url, ok, out, net) ==
    [op |-> op, url |-> url, ok |-> ok, out |-> out, net |-> net]

\* downloadFromGitHub(repoPath, buf) with an empty buf
downloadFromGitHub(repoPath) ==
    /\ Len(fetched) < MaxOps
    /\ LET hasAt == Contains(repoPath, <<"@">>)
           at == Split(repoPath, "@")
           path == IF hasAt THEN at[1] ELSE repoPath
           branch == IF hasAt THEN at[2] ELSE <<>>
           parts == Split(path, "/")
           baseRepo == IF Len(parts) >= 3 THEN Join(SubSeq(parts, 1, 2), "/") ELSE path
           subfolder == IF Len(parts) >= 3 THEN parts[3] ELSE <<>>
           commitSHA == remote[branch]
           baseCacheKey == <<"github:">> \o baseRepo \o <<":", commitSHA>>
           hit == getCachedDownload(baseCacheKey)
           cachedData == cacheDir[getCachePath(baseCacheKey)]
           body == RepoArchive(commitSHA)
           stored == cacheDownload(hit.registry, baseCacheKey, body)
           sub(zipData, buf) == extractSubfolderFromZip(zipData, subfolder, buf)
       IN IF hasAt /\ Len(at) # 2
          THEN /\ fetched' = Append(fetched, Fetched("github", repoPath, FALSE, <<>>, 0))
               /\ UNCHANGED <<registry, cacheDir>>
          ELSE IF hit.cached
          THEN /\ fetched' = Append(fetched,
                      IF subfolder # <<>>
                      THEN Fetched("github", repoPath, sub(cachedData, <<>>).ok,
                                   sub(cachedData, <<>>).buf, 1)
                      ELSE Fetched("github", repoPath, TRUE, cachedData, 1))
               /\ UNCHANGED <<registry, cacheDir>>
          ELSE /\ fetched' = Append(fetched,
                      IF subfolder # <<>>
                      THEN Fetched("github", repoPath, sub(body, body).ok,
                                   sub(body, body).buf, 2)
                      ELSE Fetched("github", repoPath, TRUE, body, 2))
               /\ registry' = stored.registry
               /\ cacheDir' = stored.cacheDir
    /\ UNCHANGED <<remote, dl, nonCacheVars>>

\* convertGitURLToZip for the hosts of the model; <<>> for an unsupported host
convertGitURLToZip(gitURL) ==
    LET repoPath == IF gitURL[Len(gitURL)] = ".git"
                    THEN SubSeq(gitURL, 1, Len(gitURL) - 1) ELSE gitURL
    IN IF HasPrefix(gitURL, <<"https://github.com/">>)
       THEN repoPath \o <<"/archive/refs/heads/main.zip">>
       ELSE <<>>

\* downloadFromGit(gitURL, buf) with an empty buf
downloadFromGit(gitURL) ==
    /\ Len(fetched) < MaxOps
    /\ LET zipURL == convertGitURLToZip(gitURL)
           hit == getCachedDownload(zipURL)
           body == RepoArchive(remote[<<>>])
           stored == cacheDownload(hit.registry, zipURL, body)
       IN IF zipURL = <<>>
          THEN /\ fetched' = Append(fetched, Fetched("git", gitURL, FALSE, <<>>, 0))
               /\ UNCHANGED <<registry, cacheDir>>
          ELSE IF hit.cached
          THEN /\ fetched' = Append(fetched,
                                    Fetched("git", gitURL, TRUE, cacheDir[getCachePath(zipURL)], 0))
               /\ UNCHANGED <<registry, cacheDir>>
          ELSE /\ fetched' = Append(fetched, Fetched("git", gitURL, TRUE, body, 1))
               /\ registry' = stored.registry
               /\ cacheDir' = stored.cacheDir
    /\ UNCHANGED <<remote, dl, nonCacheVars>>

\* somebody removes a file of the cache directory
RemoveCacheFile(path) ==
    /\ Len(fetched) < MaxOps
    /\ path \in DOMAIN cacheDir
    /\ cacheDir' = Without(cacheDir, path)
    /\ fetched' = Append(fetched, Fetched("remove", path, TRUE, <<>>, 0))
    /\ UNCHANGED <<registry, remote, dl, nonCacheVars>>

\* a commit is pushed to a branch of the remote repository
Push(b) ==
    /\ Len(fetched) < MaxOps
    /\ remote[b] < MaxCommits
    /\ remote' = [remote EXCEPT ![b] = NextCommit(remote[b])]
    /\ fetched' = Append(fetched, Fetched("push", b, TRUE, <<>>, 0))
    /\ UNCHANGED <<registry, cacheDir, dl, nonCacheVars>>

CacheNext ==
    \/ \E repoPath \in GitHubPaths : downloadFromGitHub(repoPath)
    \/ \E gitURL \in GitURLs : downloadFromGit(gitURL)
    \/ \E path \in DOMAIN cacheDir : RemoveCacheFile(path)
    \/ \E b \in Branches : Push(b)

(***************************************************************************)
(* The download cache, call by call: getCachedDownload and cacheDownload   *)
(* read and write registry.json and the cache files with separate system   *)
(* calls and hold no lock; mm.mu is not taken.  Every invocation of the    *)
(* program works on the same <base>/cache/downloads.                       *)
(***************************************************************************)
\* the cache keys asked for (the zip URL of downloadFromGit)
CacheKeys == {<<"k1">>, <<"k2">>}

\* the bytes the server holds for a key
Body(url) == url \o <<"z">>

\* what an HTTP request ends in: status 200 and the whole body, another
\* status, or a body that breaks off with a read error
Outcomes == {"ok", "status", "partial"}

\* the bytes copyWithProgress has put in buf when the request ends
Received(url, outcome) ==
    IF outcome = "ok" THEN Body(url)
    ELSE IF outcome = "partial" THEN SubSeq(Body(url), 1, 1)
    ELSE <<>>

\* whether the download goes on to cacheDownload: the error returns of
\* client.Do, of the status check and of copyWithProgress come before it
ReachesCache(outcome) == outcome = "ok"

\* getCachedDownload: delete(registry, url)
Invalidated(reg, url) == Without(reg, url)

\* the CacheEntry cacheDownload creates
Entry(url, data) == [URL |-> url, FilePath |-> getCachePath(url), Size |-> Len(data)]

\* getCachedDownload: loadCacheRegistry
LookupLoad(d, url) ==
    /\ dl[d].pc = "idle"
    /\ dl' = [dl EXCEPT ![d] = [DlIdle EXCEPT !.pc = "looked", !.url = url, !.reg = registry]]
    /\ UNCHANGED <<registry, cacheDir, remote, fetched, nonCacheVars>>

\* getCachedDownload: the map lookup, os.Stat of the backing file, and the
\* save of the registry without the entry when the file is gone; on a hit
\* the caller reads the file into buf and returns
LookupCheck(d) ==
    /\ dl[d].pc = "looked"
    /\ LET url == dl[d].url
           reg == dl[d].reg
       IN IF url \notin DOMAIN reg
          THEN /\ dl' = [dl EXCEPT ![d].pc = "fetch", ![d].look = "miss"]
               /\ UNCHANGED <<registry, cacheDir>>
          ELSE IF reg[url].FilePath \notin DOMAIN cacheDir
          THEN /\ registry' = Invalidated(reg, url)
               /\ dl' = [dl EXCEPT ![d].pc = "fetch", ![d].look = "stale",
                                   ![d].reg = Invalidated(reg, url)]
               /\ UNCHANGED cacheDir
          ELSE /\ dl' = [dl EXCEPT ![d].pc = "idle", ![d].look = "hit",
                                   ![d].buf = cacheDir[reg[url].FilePath],
                                   ![d].out = "nil"]
               /\ UNCHANGED <<registry, cacheDir>>
    /\ UNCHANGED <<remote, fetched, nonCacheVars>>

\* the request and copyWithProgress: the download returns an error unless
\* the whole body arrived
Download(d, outcome) ==
    /\ dl[d].pc = "fetch"
    /\ dl' = [dl EXCEPT ![d].buf = Received(dl[d].url, outcome),
                        ![d].pc = IF ReachesCache(outcome) THEN "write" ELSE "idle",
                        ![d].out = IF ReachesCache(outcome) THEN "none" ELSE "error"]
    /\ UNCHANGED <<registry, cacheDir, remote, fetched, nonCacheVars>>

\* cacheDownload: os.WriteFile(cachePath, data)
CacheWrite(d) ==
    /\ dl[d].pc = "write"
    /\ cacheDir' = (getCachePath(dl[d].url) :> dl[d].buf) @@ cacheDir
    /\ dl' = [dl EXCEPT ![d].pc = "load", ![d].written = dl[d].buf]
    /\ UNCHANGED <<registry, remote, fetched, nonCacheVars>>

\* cacheDownload: loadCacheRegistry
CacheLoad(d) ==
    /\ dl[d].pc = "load"
    /\ dl' = [dl EXCEPT ![d].pc = "save", ![d].reg = registry]
    /\ UNCHANGED <<registry, cacheDir, remote, fetched, nonCacheVars>>

\* cacheDownload: registry[url] = entry and saveCacheRegistry; the download
\* returns nil
CacheSave(d) ==
    /\ dl[d].pc = "save"
    /\ registry' = (dl[d].url :> Entry(dl[d].url, dl[d].buf)) @@ dl[d].reg
    /\ dl' = [dl EXCEPT ![d].pc = "idle", ![d].out = "cached"]
    /\ UNCHANGED <<cacheDir, remote, fetched, nonCacheVars>>

\* somebody clears a file out of the cache directory
DeleteCached(path) ==
    /\ path \in DOMAIN cacheDir
    /\ cacheDir' = Without(cacheDir, path)
    /\ UNCHANGED <<registry, remote, fetched, dl, nonCacheVars>>

\* the steps of invocation d
DlStep(d) ==
    \/ \E url \in CacheKeys : LookupLoad(d, url)
    \/ LookupCheck(d)
    \/ \E outcome \in Outcomes : Download(d, outcome)
    \/ CacheWrite(d)
    \/ CacheLoad(d)
    \/ CacheSave(d)

\* one invocation at a time, and files that disappear from the cache
CacheOpsNext ==
    \/ DlStep(1)
    \/ \E path \in DOMAIN cacheDir : DeleteCached(path)

\* two invocations at the same time
CacheRaceNext ==
    \/ \E d \in Invocations : DlStep(d)
    \/ \E path \in DOMAIN cacheDir : DeleteCached(path)

(***************************************************************************)
(* Removal with backup and restore (Manager.Remove, createBackup,          *)
(* ListBackups, RestoreBackup)                                             *)
(*                                                                         *)
(* Names are sequences of characters; the suffix .tar.gz counts as one     *)
(* character.  A directory tree maps paths, sequences of components, to    *)
(* what is there.                                                          *)
(***************************************************************************)
MaxClock == 2     \* seconds the clock goes through
MaxBackups == 2   \* archives in the backup directory

\* the instances that are created and removed
InstNames == {<<"a">>, <<"a", "-", "b">>}

TarGz == ".tar.gz"

\* the code of a character, for the comparison of strings
Rank(c) ==
    CASE c = "-" -> 45
      [] c = TarGz -> 46
      [] c \in {"1", "2", "3", "4"} -> 48 + (CHOOSE d \in 1..4 : <<"1", "2", "3", "4">>[d] = c)
      [] c = "a" -> 97
      [] c = "b" -> 98

\* a < b for Go strings
RECURSIVE StrLess(_, _)
StrLess(a, b) ==
    IF b = <<>> THEN FALSE
    ELSE IF a = <<>> THEN TRUE
    ELSE IF a[1] # b[1] THEN Rank(a[1]) < Rank(b[1])
    ELSE StrLess(Tail(a), Tail(b))

\* time.Now().Format("20060102-150405") at second t of the day 1
Timestamp(t) == <<"1", "-", <<"1", "2", "3", "4">>[t]>>

\* strings.LastIndex(s, c), counted from 1; 0 where Go returns -1
LastIndex(s, c) ==
    LET hits == {i \in DOMAIN s : s[i] = c}
    IN IF hits = {} THEN 0 ELSE CHOOSE i \in hits : \A j \in hits : j <= i

\* strings.TrimSuffix(s, ".tar.gz")
TrimTarGz(s) == IF s # <<>> /\ s[Len(s)] = TarGz THEN SubSeq(s, 1, Len(s) - 1) ELSE s

DirNode == [dir |-> TRUE, data |-> ""]
FileNode(d) == [dir |-> FALSE, data |-> d]

\* what an instance directory may hold when it is removed
Trees ==
    {(<<<<"s">>>> :> DirNode) @@ (<<<<"s">>, <<"t">>>> :> FileNode("save")),
     (<<<<"s">>>> :> DirNode) @@ (<<<<"c">>>> :> FileNode(""))}

\* no RestoreBackup call was made yet
RstIdle ==
    [pc |-> "idle", instName |-> <<>>, hasTmp |-> FALSE, tmp |-> <<>>, err |-> "nil",
     before |-> <<>>, had |-> FALSE]

BackupParked ==
    /\ instDirs = <<>>
    /\ backupDir = <<>>
    /\ now = 1
    /\ trip = [name |-> <<>>, orig |-> <<>>, st |-> "none"]
    /\ rst = RstIdle

\* NewManager on an empty base directory
BackupInit ==
    /\ instDirs = <<>>
    /\ backupDir = <<>>
    /\ now = 1
    /\ trip = [name |-> <<>>, orig |-> <<>>, st |-> "none"]
    /\ rst = RstIdle

\* Manager.Create and the files written into the instance afterwards
MakeInstance(name, tree) ==
    /\ name \notin DOMAIN instDirs
    /\ instDirs' = (name :> tree) @@ instDirs
    /\ UNCHANGED <<backupDir, now, trip, rst, nonBackupVars>>

\* createBackup: the tar headers of everything under the instance directory,
\* each named by its slash-separated relative path
createBackup(tree) ==
    {[Name |-> Join(p, "/"), Typeflag |-> IF tree[p].dir THEN "dir" ELSE "reg",
      Data |-> tree[p].data] : p \in DOMAIN tree}

\* the name createBackup gives the archive
BackupName(name, t) == name \o <<"-">> \o Timestamp(t) \o <<TarGz>>

\* Manager.Remove(name, backup)
Remove(name, backup) ==
    /\ name \in DOMAIN instDirs
    /\ backup => Cardinality(DOMAIN backupDir \cup {BackupName(name, now)}) <= MaxBackups
    /\ backupDir' = IF backup
                    THEN (BackupName(name, now) :> createBackup(instDirs[name])) @@ backupDir
                    ELSE backupDir
    /\ instDirs' = Without(instDirs, name)
    /\ trip' = IF backup THEN [name |-> name, orig |-> instDirs[name], st |-> "removed"]
               ELSE [name |-> <<>>, orig |-> <<>>, st |-> "none"]
    /\ UNCHANGED <<now, rst, nonBackupVars>>

RECURSIVE SortDesc(_)
\* sort.Slice(backups, backups[i] > backups[j])
SortDesc(S) ==
    IF S = {} THEN <<>>
    ELSE LET m == CHOOSE x \in S : \A y \in S : ~StrLess(x, y)
         IN <<m>> \o SortDesc(S \ {m})

\* Manager.ListBackups(name)
ListBackups(name) ==
    SortDesc({b \in DOMAIN backupDir : Match(name \o <<"-", "*", TarGz>>, b)})

\* os.MkdirAll(p): p and the directories above it
MkdirAll(p) == {SubSeq(p, 1, n) : n \in 1..Len(p)}

\* RestoreBackup: the temporary directory after the extraction of the archive
Extract(archive) ==
    LET path(h) == Split(h.Name, "/")
        regs == {h \in archive : h.Typeflag = "reg"}
        dirs == UNION {MkdirAll(path(h)) : h \in {x \in archive : x.Typeflag = "dir"}}
                  \cup UNION {MkdirAll(SubSeq(path(h), 1, Len(path(h)) - 1)) : h \in regs}
    IN [p \in dirs \cup {path(h) : h \in regs} |->
           IF \E h \in regs : path(h) = p
           THEN FileNode((CHOOSE h \in regs : path(h) = p).Data)
           ELSE DirNode]

\* the instance name RestoreBackup takes from the name of the archive
RestoredName(backupName) ==
    LET base == TrimTarGz(backupName)
    IN SubSeq(base, 1, LastIndex(base, "-") - 1)

\* Manager.RestoreBackup(backupName), called with the first name ListBackups
\* returns for some instance
RestoreBackup(backupName) ==
    /\ \E name \in InstNames :
          ListBackups(name) # <<>> /\ backupName = Head(ListBackups(name))
    /\ LastIndex(TrimTarGz(backupName), "-") # 0
    /\ instDirs' = (RestoredName(backupName) :> Extract(backupDir[backupName]))
                     @@ Without(instDirs, RestoredName(backupName))
    /\ trip' = IF trip.st = "removed" /\ backupName = Head(ListBackups(trip.name))
               THEN [trip EXCEPT !.st = "restored"]
               ELSE [name |-> <<>>, orig |-> <<>>, st |-> "none"]
    /\ UNCHANGED <<backupDir, now, rst, nonBackupVars>>

\* a second passes
Tick ==
    /\ now < MaxClock
    /\ now' = now + 1
    /\ UNCHANGED <<instDirs, backupDir, trip, rst, nonBackupVars>>

BackupNext ==
    \/ \E name \in InstNames, tree \in Trees : MakeInstance(name, tree)
    \/ \E name \in InstNames, backup \in BOOLEAN : Remove(name, backup)
    \/ \E backupName \in DOMAIN backupDir : RestoreBackup(backupName)
    \/ Tick

(***************************************************************************)
(* Manager.RestoreBackup with the errors it can return.  The body runs to  *)
(* its return statement in one step, the deferred calls run in the next.   *)
(***************************************************************************)
\* the instances of the restore runs; a-1 is where the archive of a goes
RestoreInsts == {<<"a">>, <<"a", "-", "1">>}

\* the names RestoreBackup is called with: the archives, a name that has no
\* archive, and a name without a dash
RestoreArgs == DOMAIN backupDir \cup {<<"a", "-", "4", TarGz>>, <<"a", TarGz>>}

\* the call of the body that fails ("none": no call fails)
FailPoints == {"none", "mkdirTemp", "open", "extract", "removeAll", "mkdirAll", "rename"}

\* what a failed os.RemoveAll may leave of a tree: a set of paths that holds
\* the directories above each of its paths
Remains(tree) ==
    {K \in SUBSET DOMAIN tree :
        \A p \in K : \A n \in 1..(Len(p) - 1) : SubSeq(p, 1, n) \in K}

\* the body of RestoreBackup(backupName) up to its return statement, where the
\* call named by at fails
RestoreBody(backupName, at) ==
    LET base == TrimTarGz(backupName)
        instName == RestoredName(backupName)
        returns(e, made, tree) ==
            [pc |-> IF made THEN "defer" ELSE "returned", instName |-> instName,
             hasTmp |-> made, tmp |-> tree, err |-> e,
             before |-> IF instName \in DOMAIN instDirs THEN instDirs[instName] ELSE <<>>,
             had |-> instName \in DOMAIN instDirs]
    IN /\ rst.pc = "idle"
       /\ \/ /\ LastIndex(base, "-") = 0
             /\ at = "none"
             /\ rst' = [RstIdle EXCEPT !.pc = "returned", !.err = "invalid backup name format"]
             /\ UNCHANGED instDirs
          \/ /\ LastIndex(base, "-") # 0
             /\ at = "mkdirTemp"
             /\ rst' = returns("creating temporary directory", FALSE, <<>>)
             /\ UNCHANGED instDirs
          \/ /\ LastIndex(base, "-") # 0
             /\ backupName \notin DOMAIN backupDir \/ at = "open"
             /\ rst' = returns("opening backup file", TRUE, <<>>)
             /\ UNCHANGED instDirs
          \/ /\ LastIndex(base, "-") # 0
             /\ backupName \in DOMAIN backupDir
             /\ at = "extract"
             /\ \E part \in (SUBSET backupDir[backupName]) \ {backupDir[backupName]} :
                   rst' = returns("reading tar header", TRUE, Extract(part))
             /\ UNCHANGED instDirs
          \/ /\ LastIndex(base, "-") # 0
             /\ backupName \in DOMAIN backupDir
             /\ at = "removeAll"
             /\ instName \in DOMAIN instDirs
             /\ \E K \in Remains(instDirs[instName]) :
                   instDirs' = [instDirs EXCEPT ![instName] = [p \in K |-> instDirs[instName][p]]]
             /\ rst' = returns("removing existing instance directory", TRUE,
                           Extract(backupDir[backupName]))
          \/ /\ LastIndex(base, "-") # 0
             /\ backupName \in DOMAIN backupDir
             /\ at = "mkdirAll"
             /\ DOMAIN instDirs = {}
             /\ rst' = returns("creating instances directory", TRUE, Extract(backupDir[backupName]))
             /\ UNCHANGED instDirs
          \/ /\ LastIndex(base, "-") # 0
             /\ backupName \in DOMAIN backupDir
             /\ at = "rename"
             /\ instDirs' = Without(instDirs, instName)
             /\ rst' = returns("moving restored files to instance directory", TRUE,
                           Extract(backupDir[backupName]))
          \/ /\ LastIndex(base, "-") # 0
             /\ backupName \in DOMAIN backupDir
             /\ at = "none"
             /\ instDirs' = (instName :> Extract(backupDir[backupName]))
                              @@ Without(instDirs, instName)
             /\ rst' = [returns("nil", TRUE, <<>>) EXCEPT !.hasTmp = FALSE]
       /\ UNCHANGED <<backupDir, now, trip, nonBackupVars>>

\* the deferred calls of RestoreBackup: os.RemoveAll(tmpDir), f.Close()
RestoreDeferred ==
    /\ rst.pc = "defer"
    /\ rst' = [rst EXCEPT !.pc = "returned", !.hasTmp = FALSE, !.tmp = <<>>]
    /\ UNCHANGED <<instDirs, backupDir, now, trip, nonBackupVars>>

\* the commands that create and remove instances, then one RestoreBackup
RestoreNext ==
    \/ rst.pc = "idle" /\ \E name \in RestoreInsts, tree \in Trees : MakeInstance(name, tree)
    \/ rst.pc = "idle" /\ \E name \in RestoreInsts, backup \in BOOLEAN : Remove(name, backup)
    \/ \E backupName \in RestoreArgs, at \in FailPoints : RestoreBody(backupName, at)
    \/ RestoreDeferred
    \/ rst.pc = "idle" /\ Tick

(***************************************************************************)
(* The configuration file (config.go, jsonc.Parse)                         *)
(*                                                                         *)
(* A file is a sequence of bytes; a byte is one character, or a word of    *)
(* letters that no function here takes apart.  Blanks other than the line  *)
(* feed are left out: neither the comment stripper nor the JSON decoder    *)
(* looks at them.                                                          *)
(***************************************************************************)
Q == "\""
BS == "\\"
NL == "\n"

Digits == <<"0", "1", "2">>

\* the values of Config.Mods.Sources: one of each kind of source specification
SourceSpecs ==
    {<<"portal:", "m", "@", "1">>,
     <<"github:", "o", "/", "p">>,
     <<"ghpr:", "o", "/", "p", "#", "1">>,
     <<"git:", "https:", "/", "/", "h", "/", "p">>}

\* the values of ServerConfig that are saved
ServerConfigs ==
    {[Name |-> n, MaxPlayers |-> k] : n \in {<<>>, <<"s">>, <<"s", Q, BS>>}, k \in {0, 2}}

\* the configurations that are saved
Configs ==
    [Name : {<<>>, <<"a">>, <<"a", "-", "b">>},
     Version : {<<"1", ".", "1">>},
     Enabled : {<<>>, <<ModBase>>, <<<<"m">>>>},
     Sources : {<<>>} \cup {(<<"s">> :> spec) : spec \in SourceSpecs},
     Server : {<<>>} \cup {<<sc>> : sc \in ServerConfigs}]

\* ServerConfig.validate: TRUE when it returns nil
validateServer(sc) == sc.Name # <<>> /\ ~(sc.MaxPlayers < 1)

\* Config.validate: TRUE when it returns nil
validate(c) ==
    /\ c.Name # <<>>
    /\ c.Version # <<>>
    /\ ~(/\ \E i \in DOMAIN c.Enabled : ~isBuiltinMod(c.Enabled[i])
         /\ DOMAIN c.Sources = {})
    /\ (c.Server # <<>> => validateServer(c.Server[1]))

RECURSIVE Escape(_)
\* encoding/json: the bytes of a string between its quotes
Escape(s) ==
    IF s = <<>> THEN <<>>
    ELSE (IF Head(s) \in {Q, BS} THEN <<BS, Head(s)>> ELSE <<Head(s)>>) \o Escape(Tail(s))

\* encoding/json: a string value
JStr(s) == <<Q>> \o Escape(s) \o <<Q>>

\* a line with the comma that separates it from the lines that follow it
WithComma(line, more) == IF more THEN line \o <<",">> ELSE line

\* the keys of a map in the order encoding/json writes them
SortedKeys(m) ==
    CHOOSE q \in SetToSeqs(DOMAIN m) :
        \A i \in DOMAIN q : \A j \in DOMAIN q : i < j => StrLess(q[i], q[j])

\* json.MarshalIndent(c): the lines of the file
MarshalLines(c) ==
    LET key(k) == JStr(<<k>>) \o <<":">>
        items ==
            IF c.Enabled = <<>> THEN <<key("enabled") \o <<"[", "]", ",">>>>
            ELSE <<key("enabled") \o <<"[">>>>
                 \o [i \in DOMAIN c.Enabled |->
                        WithComma(JStr(c.Enabled[i]), i < Len(c.Enabled))]
                 \o <<<<"]", ",">>>>
        keys == SortedKeys(c.Sources)
        srcs ==
            IF DOMAIN c.Sources = {} THEN <<key("sources") \o <<"{", "}">>>>
            ELSE <<key("sources") \o <<"{">>>>
                 \o [i \in DOMAIN keys |->
                        WithComma(JStr(keys[i]) \o <<":">> \o JStr(c.Sources[keys[i]]),
                                  i < Len(keys))]
                 \o <<<<"}">>>>
        server ==
            IF c.Server = <<>> THEN <<>>
            ELSE <<key("server") \o <<"{">>,
                   key("name") \o JStr(c.Server[1].Name) \o <<",">>,
                   key("max_players") \o <<Digits[c.Server[1].MaxPlayers + 1]>>,
                   <<"}">>>>
    IN <<<<"{">>,
         key("name") \o JStr(c.Name) \o <<",">>,
         key("version") \o JStr(c.Version) \o <<",">>,
         key("mods") \o <<"{">>>>
       \o items \o srcs
       \o <<WithComma(<<"}">>, c.Server # <<>>)>>
       \o server
       \o <<<<"}">>>>

\* json.MarshalIndent(c): the bytes of the file
MarshalIndent(c) == Join(MarshalLines(c), NL)

\* jsonc.Parse: a line without its // comment
StripLine(line) ==
    LET idx == Index(line, <<"/", "/">>)
    IN IF idx # 0 THEN SubSeq(line, 1, idx - 1) ELSE line

\* jsonc.Parse: the data without its // comments
StripLineComments(data) ==
    LET lines == Split(data, NL)
    IN Join([i \in DOMAIN lines |-> StripLine(lines[i])], NL)

RECURSIVE StripBlockComments(_, _, _)
\* jsonc.Parse: the data from byte i on without its block comments. The loop
\* copies or drops byte after byte up to the next /* or */, which it skips.
StripBlockComments(data, i, inComment) ==
    LET marks == {j \in i..(Len(data) - 1) :
                     \/ data[j] = "/" /\ data[j + 1] = "*"
                     \/ data[j] = "*" /\ data[j + 1] = "/"}
        j == CHOOSE m \in marks : \A n \in marks : m <= n
        kept(to) == IF inComment THEN <<>> ELSE SubSeq(data, i, to)
    IN IF marks = {} THEN kept(Len(data))
       ELSE kept(j - 1) \o StripBlockComments(data, j + 2, data[j] = "/")

\* encoding/json values: strings, numbers, arrays and objects
JString(s) == [k |-> "string", s |-> s, keys |-> <<>>, items |-> <<>>]
JNumber(d) == [k |-> "number", s |-> <<d>>, keys |-> <<>>, items |-> <<>>]
JArray(items) == [k |-> "array", s |-> <<>>, keys |-> <<>>, items |-> items]
JObject(keys, items) == [k |-> "object", s |-> <<>>, keys |-> keys, items |-> items]

\* the result of a scanner or of a decoder that met a syntax error
SyntaxError == [ok |-> FALSE, val |-> JString(<<>>), rest |-> <<>>]
Parsed(val, rest) == [ok |-> TRUE, val |-> val, rest |-> rest]

RECURSIVE ScanString(_, _)
\* encoding/json scanner inside a string literal: the string and what follows
ScanString(data, acc) ==
    LET stops == {j \in DOMAIN data : data[j] \in {Q, NL, BS}}
        j == CHOOSE m \in stops : \A n \in stops : m <= n
        plain == acc \o SubSeq(data, 1, j - 1)
    IN IF stops = {} THEN SyntaxError
       ELSE IF data[j] = Q THEN Parsed(JString(plain), SubSeq(data, j + 1, Len(data)))
       ELSE IF data[j] = NL THEN SyntaxError
       ELSE IF j < Len(data) /\ data[j + 1] \in {Q, BS, "/"}
       THEN ScanString(SubSeq(data, j + 2, Len(data)), Append(plain, data[j + 1]))
       ELSE SyntaxError

\* the byte that follows the blanks at the head of data; NL when there is none
Peek(data) ==
    LET at == {i \in DOMAIN data : data[i] # NL}
    IN IF at = {} THEN NL ELSE data[CHOOSE i \in at : \A j \in at : i <= j]

\* data without the blanks at its head
RECURSIVE SkipBlanks(_)
SkipBlanks(data) == IF data # <<>> /\ Head(data) = NL THEN SkipBlanks(Tail(data)) ELSE data

\* data after the byte that follows the blanks at its head
Next1(data) == Tail(SkipBlanks(data))

RECURSIVE ScanValue(_)
RECURSIVE ScanItems(_, _)
RECURSIVE ScanFields(_, _, _)
\* encoding/json decoder: the value at the head of data and what follows it
ScanValue(data) ==
    LET c == Peek(data)
        after == Next1(data)
    IN IF c = Q THEN ScanString(after, <<>>)
       ELSE IF c \in Range(Digits) THEN Parsed(JNumber(c), after)
       ELSE IF c = "["
       THEN IF Peek(after) = "]" THEN Parsed(JArray(<<>>), Next1(after))
            ELSE ScanItems(after, <<>>)
       ELSE IF c = "{"
       THEN IF Peek(after) = "}" THEN Parsed(JObject(<<>>, <<>>), Next1(after))
            ELSE ScanFields(after, <<>>, <<>>)
       ELSE SyntaxError

\* the elements of an array after its opening bracket
ScanItems(data, acc) ==
    LET r == ScanValue(data)
    IN IF ~r.ok THEN SyntaxError
       ELSE IF Peek(r.rest) = "," THEN ScanItems(Next1(r.rest), Append(acc, r.val))
       ELSE IF Peek(r.rest) = "]" THEN Parsed(JArray(Append(acc, r.val)), Next1(r.rest))
       ELSE SyntaxError

\* the members of an object after its opening brace
ScanFields(data, keys, items) ==
    LET k == IF Peek(data) = Q THEN ScanString(Next1(data), <<>>) ELSE SyntaxError
        r == IF k.ok /\ Peek(k.rest) = ":" THEN ScanValue(Next1(k.rest)) ELSE SyntaxError
    IN IF ~r.ok THEN SyntaxError
       ELSE IF Peek(r.rest) = ","
       THEN ScanFields(Next1(r.rest), Append(keys, k.val.s), Append(items, r.val))
       ELSE IF Peek(r.rest) = "}"
       THEN Parsed(JObject(Append(keys, k.val.s), Append(items, r.val)), Next1(r.rest))
       ELSE SyntaxError

\* whether object o has a member named key, and the last such member
Has(o, key) == \E i \in DOMAIN o.keys : o.keys[i] = <<key>>
Member(o, key) ==
    o.items[CHOOSE i \in DOMAIN o.keys :
                /\ o.keys[i] = <<key>>
                /\ \A j \in DOMAIN o.keys : o.keys[j] = <<key>> => j <= i]

\* whether member key of o, when there is one, has kind k
Typed(o, key, k) == Has(o, key) => Member(o, key).k = k

\* the position of digit d in Digits, less one
DigitValue(d) == (CHOOSE n \in DOMAIN Digits : Digits[n] = d) - 1

\* an object whose members all are strings, as a map
StringMap(o) ==
    [key \in Range(o.keys) |->
        o.items[CHOOSE i \in DOMAIN o.keys :
                    o.keys[i] = key /\ \A j \in DOMAIN o.keys : o.keys[j] = key => j <= i].s]

\* json.Unmarshal into a ServerConfig
DecodeServer(o) ==
    [Name |-> IF Has(o, "name") THEN Member(o, "name").s ELSE <<>>,
     MaxPlayers |-> IF Has(o, "max_players") THEN DigitValue(Member(o, "max_players").s[1])
                    ELSE 0]

\* whether json.Unmarshal accepts the kinds of the members of the object
WellTyped(o) ==
    LET mods == Member(o, "mods")
        server == Member(o, "server")
    IN /\ o.k = "object"
       /\ Typed(o, "name", "string")
       /\ Typed(o, "version", "string")
       /\ Typed(o, "mods", "object")
       /\ Has(o, "mods") =>
             /\ Typed(mods, "enabled", "array")
             /\ Has(mods, "enabled") =>
                   \A i \in DOMAIN Member(mods, "enabled").items :
                       Member(mods, "enabled").items[i].k = "string"
             /\ Typed(mods, "sources", "object")
             /\ Has(mods, "sources") =>
                   \A i \in DOMAIN Member(mods, "sources").items :
                       Member(mods, "sources").items[i].k = "string"
       /\ Typed(o, "server", "object")
       /\ Has(o, "server") =>
             /\ Typed(server, "name", "string")
             /\ Typed(server, "max_players", "number")

\* json.Unmarshal into a Config
DecodeConfig(o) ==
    LET mods == Member(o, "mods")
        items == Member(mods, "enabled").items
    IN [Name |-> IF Has(o, "name") THEN Member(o, "name").s ELSE <<>>,
        Version |-> IF Has(o, "version") THEN Member(o, "version").s ELSE <<>>,
        Enabled |-> IF Has(o, "mods") /\ Has(mods, "enabled")
                    THEN [i \in DOMAIN items |-> items[i].s] ELSE <<>>,
        Sources |-> IF Has(o, "mods") /\ Has(mods, "sources")
                    THEN StringMap(Member(mods, "sources")) ELSE <<>>,
        Server |-> IF Has(o, "server") THEN <<DecodeServer(Member(o, "server"))>> ELSE <<>>]

\* what LoadConfig returns
Loaded(err, cfg) == [st |-> "returned", err |-> err, cfg |-> cfg]
NotLoaded == [st |-> "none", err |-> "", cfg |-> <<>>]

\* jsonc.Parse followed by Config.validate, on the bytes of a file
ParseConfig(data) ==
    LET result == StripBlockComments(StripLineComments(data), 1, FALSE)
        r == ScanValue(result)
    IN IF ~r.ok \/ SkipBlanks(r.rest) # <<>> \/ ~WellTyped(r.val)
       THEN Loaded("parsing config file", <<>>)
       ELSE IF ~validate(DecodeConfig(r.val))
       THEN Loaded("validating config", <<>>)
       ELSE Loaded("nil", DecodeConfig(r.val))

ConfigParked ==
    /\ cfgSaved = <<>>
    /\ cfgFile = <<>>
    /\ cfgLoaded = NotLoaded

\* no configuration file is written yet
ConfigInit ==
    /\ cfgSaved = <<>>
    /\ cfgFile = <<>>
    /\ cfgLoaded = NotLoaded

\* Config.SaveConfig(path) on configuration c
SaveConfig(c) ==
    /\ IF validate(c)
       THEN /\ cfgFile' = MarshalIndent(c)
            /\ cfgSaved' = <<c>>
       ELSE UNCHANGED <<cfgFile, cfgSaved>>
    /\ cfgLoaded' = NotLoaded
    /\ UNCHANGED nonConfigVars

\* LoadConfig(path) on the file SaveConfig wrote
LoadSavedConfig ==
    /\ cfgFile # <<>>
    /\ cfgLoaded.st = "none"
    /\ cfgLoaded' = ParseConfig(cfgFile)
    /\ UNCHANGED <<cfgFile, cfgSaved, nonConfigVars>>

ConfigNext ==
    \/ \E c \in Configs : SaveConfig(c)
    \/ LoadSavedConfig

(***************************************************************************)
(* Instance names (validateInstanceName, Config.validate, Manager.Create)  *)
(***************************************************************************)
MaxNameLen == 50  \* the longest name validateInstanceName accepts
MaxDirs == 2      \* instance directories that are created

\* the code points of the characters names are made of
CodePoints ==
    [c \in {" ", "-", ".", "/", "0", "9", ":", "@", "A", "Z", "[", "^", "_", "a", "z", "{"} |->
        CASE c = " " -> 32 [] c = "-" -> 45 [] c = "." -> 46 [] c = "/" -> 47
          [] c = "0" -> 48 [] c = "9" -> 57 [] c = ":" -> 58 [] c = "@" -> 64
          [] c = "A" -> 65 [] c = "Z" -> 90 [] c = "[" -> 91 [] c = "^" -> 94
          [] c = "_" -> 95 [] c = "a" -> 97 [] c = "z" -> 122 [] c = "{" -> 123]

\* the string of n characters c
Repeat(c, n) == [i \in 1..n |-> c]

\* the names given on the command line and in Config.Name
GivenNames ==
    {<<c>> : c \in DOMAIN CodePoints}
      \cup {Repeat("a", n) : n \in {0, MaxNameLen - 1, MaxNameLen, MaxNameLen + 1}}
      \cup {<<"a", "-", "Z", "_", "0">>, <<"a", "/", "a">>}

\* validateInstanceName: TRUE when it returns nil
validateInstanceName(name) ==
    /\ name # <<>>
    /\ ~(Len(name) > MaxNameLen)
    /\ \A i \in DOMAIN name :
          LET char == CodePoints[name[i]]
          IN \/ (char >= CodePoints["a"] /\ char <= CodePoints["z"])
             \/ (char >= CodePoints["A"] /\ char <= CodePoints["Z"])
             \/ (char >= CodePoints["0"] /\ char <= CodePoints["9"])
             \/ char = CodePoints["-"]
             \/ char = CodePoints["_"]

\* what a call about a name returned
NameRet(op, name, err) == [op |-> op, name |-> name, err |-> err]

NamesParked ==
    /\ dirNames = {}
    /\ nameRet = NameRet("none", <<>>, "")

\* NewManager on an empty base directory
NamesInit ==
    /\ dirNames = {}
    /\ nameRet = NameRet("none", <<>>, "")

\* Config.validate for a configuration that has a version and no mods
validateName(name) == name # <<>>

\* Manager.Create(cfg) with cfg.Name = name
CreateInstance(name) ==
    /\ Cardinality(dirNames \cup {name}) <= MaxDirs
    /\ IF validateName(name)
       THEN /\ dirNames' = dirNames \cup {name}
            /\ nameRet' = NameRet("Create", name, "nil")
       ELSE /\ nameRet' = NameRet("Create", name, "invalid configuration")
            /\ UNCHANGED dirNames
    /\ UNCHANGED nonNameVars

\* factctl up <instanceName>: handleUp up to the return of Manager.Create
UpCommand(instanceName) ==
    /\ Cardinality(dirNames \cup {instanceName}) <= MaxDirs
    /\ IF validateInstanceName(instanceName)
       THEN /\ dirNames' = dirNames \cup {instanceName}
            /\ nameRet' = NameRet("up", instanceName, "nil")
       ELSE /\ nameRet' = NameRet("up", instanceName, "invalid instance name")
            /\ UNCHANGED dirNames
    /\ UNCHANGED nonNameVars

\* LoadConfig of a file whose name member is name
LoadNamed(name) ==
    /\ nameRet' = NameRet("LoadConfig", name,
                          IF validateName(name) THEN "nil" ELSE "validating config")
    /\ UNCHANGED <<dirNames, nonNameVars>>

NamesNext ==
    \/ \E name \in GivenNames : CreateInstance(name)
    \/ \E instanceName \in GivenNames : UpCommand(instanceName)
    \/ \E name \in GivenNames : LoadNamed(name)

(***************************************************************************)
(* Functions called on their own: the caller hands over the arguments and  *)
(* the function returns                                                    *)
(***************************************************************************)
\* no call
FnParked ==
    /\ fnCall = [fn |-> "none", st |-> "none"]
    /\ fnRet = "none"

\* the function returns out to its caller
Return(out) ==
    /\ fnCall.st = "called"
    /\ fnCall' = [fnCall EXCEPT !.st = "returned"]
    /\ fnRet' = out
    /\ UNCHANGED nonFnVars

MaxComponents == 4   \* dot-separated components of a version string
MaxVersion == 2      \* largest number in a component

\* version strings, as the numbers between their dots
Versions == UNION {[1..n -> 1..MaxVersion] : n \in 1..MaxComponents}

\* a caller of isVersionCompatible with its two arguments
VersionInit ==
    /\ fnCall \in [fn : {"isVersionCompatible"}, st : {"called"},
                    factorioVersion : Versions, modVersion : Versions]
    /\ fnRet = "none"

\* isVersionCompatible returns
VersionReturn ==
    /\ fnCall.fn = "isVersionCompatible"
    /\ Return(isVersionCompatible(fnCall.factorioVersion, fnCall.modVersion))

VersionNext == VersionReturn

\* strings.SplitN(s, sep, 2) for a one-token sep
SplitN2(s, sep) ==
    LET i == Index(s, <<sep>>)
    IN IF i = 0 THEN <<s>> ELSE <<SubSeq(s, 1, i - 1), SubSeq(s, i + 1, Len(s))>>

\* ErrInvalidSource
ErrInvalidSource == [err |-> "invalid source specification"]

\* a Source with every field at its zero value
Source == [err |-> "nil", Type |-> "SourceUnknown", ID |-> <<>>, Version |-> <<>>,
           Owner |-> <<>>, Repo |-> <<>>, PR |-> 0, SubPath |-> <<>>]

\* parsePortalSource
parsePortalSource(spec) ==
    LET parts == SplitN2(spec, "@")
    IN IF Len(parts) # 2 THEN ErrInvalidSource
       ELSE [Source EXCEPT !.Type = "SourcePortal", !.ID = parts[1], !.Version = parts[2]]

\* parseGitHubSource
parseGitHubSource(spec) ==
    LET repoRef == SplitN2(spec, "@")
        ownerRepo == SplitN2(repoRef[1], "/")
    IN IF Len(repoRef) # 2 THEN ErrInvalidSource
       ELSE IF Len(ownerRepo) # 2 THEN ErrInvalidSource
       ELSE [Source EXCEPT !.Type = "SourceGitHub", !.Owner = ownerRepo[1],
                           !.Repo = ownerRepo[2], !.Version = repoRef[2]]

\* strconv.Atoi on the tokens of the model: the number, -1 for an error
Atoi(t) == IF t = <<"1">> THEN 1 ELSE IF t = <<"2">> THEN 2 ELSE -1

\* parseGitHubPRSource
parseGitHubPRSource(spec) ==
    LET repoPR == SplitN2(spec, "#")
        ownerRepo == SplitN2(repoPR[1], "/")
    IN IF Len(repoPR) # 2 THEN ErrInvalidSource
       ELSE IF Len(ownerRepo) # 2 THEN ErrInvalidSource
       ELSE IF Atoi(repoPR[2]) < 0 THEN ErrInvalidSource
       ELSE [Source EXCEPT !.Type = "SourceGitHubPR", !.Owner = ownerRepo[1],
                           !.Repo = ownerRepo[2], !.PR = Atoi(repoPR[2])]

\* parseGitSource
parseGitSource(spec) ==
    LET repoRef == SplitN2(spec, "@")
    IN IF Len(repoRef) # 2 THEN ErrInvalidSource
       ELSE [Source EXCEPT !.Type = "SourceGit", !.ID = repoRef[1], !.Version = repoRef[2]]

\* ParseSource for the source types that name a repository or a portal mod
ParseSource(spec) ==
    LET parts == SplitN2(spec, ":")
    IN IF Len(parts) # 2 THEN ErrInvalidSource
       ELSE IF parts[1] = <<"portal">> THEN parsePortalSource(parts[2])
       ELSE IF parts[1] = <<"gh">> THEN parseGitHubSource(parts[2])
       ELSE IF parts[1] = <<"ghpr">> THEN parseGitHubPRSource(parts[2])
       ELSE IF parts[1] = <<"git">> THEN parseGitSource(parts[2])
       ELSE ErrInvalidSource

\* knownMultiModRepos
knownMultiModRepos == {<<"modded-factorio", "/", "SeaBlock">>, <<"Arch666Angel", "/", "mods">>,
                       <<"KiwiHawk", "/", "SeaBlock">>}

\* isMultiModRepo
isMultiModRepo(owner, repo) == (owner \o <<"/">> \o repo) \in knownMultiModRepos

\* GitHubFetcher.Fetch up to its request: the URL it asks for, or its error
GitHubFetch(src) ==
    IF src.Type # "SourceGitHub" THEN [err |-> "invalid source type for GitHub fetcher"]
    ELSE IF isMultiModRepo(src.Owner, src.Repo) /\ src.SubPath = <<>>
    THEN [err |-> "SubPath is required for multi-mod repository"]
    ELSE [err |-> "nil",
          url |-> <<"/", "repos", "/">> \o src.Owner \o <<"/">> \o src.Repo
                     \o <<"/", "zipball", "/">> \o src.Version]

\* the specifications handed to ParseSource: a type, a repository part and
\* what follows it
ParseSpecs ==
    {t \o <<":">> \o r \o x :
        t \in {<<"gh">>, <<"ghpr">>, <<"portal">>, <<"git">>, <<"svn">>},
        r \in {<<"modded-factorio", "/", "SeaBlock">>,
               <<"modded-factorio", "/", "SeaBlock", "/", "SeaBlock">>,
               <<"u", "/", "r">>,
               <<"u", "/", "r", "/", "m">>,
               <<"u">>},
        x \in {<<>>, <<"@", "main">>, <<"#", "1">>, <<"#", "main">>}}

\* a caller of ParseSource with its argument
ParseInit ==
    /\ fnCall \in [fn : {"ParseSource"}, st : {"called"}, spec : ParseSpecs]
    /\ fnRet = "none"

\* ParseSource returns
ParseReturn ==
    /\ fnCall.fn = "ParseSource"
    /\ Return(ParseSource(fnCall.spec))

\* the resolver hands a parsed gh: source to GitHubFetcher.Fetch
FetchParsed ==
    /\ fnCall.fn = "ParseSource"
    /\ fnCall.st = "returned"
    /\ fnRet.err = "nil"
    /\ fnRet.Type = "SourceGitHub"
    /\ fnCall' = [fnCall EXCEPT !.st = "fetched", !.fn = "Fetch"]
    /\ fnRet' = [src |-> fnRet, got |-> GitHubFetch(fnRet)]
    /\ UNCHANGED nonFnVars

ParseNext == ParseReturn \/ FetchParsed

\* a directory that does not exist
NoDir == [exists |-> FALSE, entries |-> {}]

\* the directories a runtime slot or an engine path may be: absent, or holding
\* some of bin, data, base and data/base
EngineDirs ==
    {NoDir} \cup {[exists |-> TRUE, entries |-> e] :
                    e \in {x \in SUBSET {"bin", "data", "base", "data/base"} :
                               "data/base" \in x => "data" \in x}}

\* Manager.isValidFactorioInstallation
isValidFactorioInstallation(dir) ==
    /\ "bin" \in dir.entries
    /\ "data" \in dir.entries
    /\ ("base" \in dir.entries \/ "data/base" \in dir.entries)

\* Manager.copyDirectory(src, dst): what dst holds afterwards
copyDirectory(src, dst) == [exists |-> TRUE, entries |-> dst.entries \cup src.entries]

\* Manager.ensureRuntimeFromSystem: the error, and the slot afterwards
ensureRuntimeFromSystem(system, slot) ==
    IF slot.exists /\ isValidFactorioInstallation(slot)
    THEN [err |-> "nil", slot |-> slot]
    ELSE [err |-> "nil", slot |-> copyDirectory(system, slot)]

\* Manager.findBaseFactorioForRuntime for a manager with the engine path
\* factorioPath (given: it is not the empty string) and the slot
\* runtimes/<runtimeName>: the error, nil when the slot is returned, and the
\* slot afterwards
findBaseFactorioForRuntime(given, factorioPath, slot) ==
    IF given
    THEN IF factorioPath.exists
         THEN IF isValidFactorioInstallation(factorioPath)
              THEN ensureRuntimeFromSystem(factorioPath, slot)
              ELSE [err |-> "specified Factorio path is not a valid installation",
                    slot |-> slot]
         ELSE [err |-> "specified Factorio path does not exist", slot |-> slot]
    ELSE IF slot.exists
    THEN IF isValidFactorioInstallation(slot)
         THEN [err |-> "nil", slot |-> slot]
         ELSE [err |-> "exists but is not a valid Factorio installation", slot |-> slot]
    ELSE [err |-> "not found in runtimes directory", slot |-> slot]

\* Manager.Create about to look for the runtime of the configuration
ResolveInit ==
    /\ fnCall \in [fn : {"findBaseFactorioForRuntime"}, st : {"called"},
                    given : BOOLEAN, factorioPath : EngineDirs, slot : EngineDirs]
    /\ ~fnCall.given => fnCall.factorioPath = NoDir
    /\ fnRet = "none"

\* findBaseFactorioForRuntime returns to Manager.Create
ResolveReturn ==
    /\ fnCall.fn = "findBaseFactorioForRuntime"
    /\ Return(findBaseFactorioForRuntime(fnCall.given, fnCall.factorioPath, fnCall.slot))

ResolveNext == ResolveReturn

(***************************************************************************)
(* Manager.Create with the errors it can return, and Manager.Remove       *)
(***************************************************************************)
\* the configurations Create is called with
CreateConfigs == {c \in Configs : c.Sources = <<>>}

\* the engine path and the runtime slot Create may find: absent, empty,
\* incomplete, or a valid installation
CreateEngineDirs ==
    {d \in EngineDirs : d.entries \in {{}, {"bin"}, {"bin", "data", "data/base"}}}

\* the call of Create that fails, next to the validation and the lookup of the
\* runtime ("none": no other call fails)
CreateFailPoints ==
    {"none", "MkdirAll", "instanceDirs", "createOverlay", "SaveConfig", "mod-list.json",
     "server-settings.json", "config-path.cfg", "player-data.json"}

\* what Create returns for cfg, with the engine path and the runtime slot the
\* manager finds, where the call named by at fails: the error, and whether
\* os.MkdirAll(instDir) was passed
CreateResult(cfg, given, factorioPath, slot, at) ==
    LET found == findBaseFactorioForRuntime(given, factorioPath, slot)
    IN IF ~validate(cfg) THEN [err |-> "invalid configuration", made |-> FALSE]
       ELSE IF at = "MkdirAll" THEN [err |-> "creating instance directory", made |-> FALSE]
       ELSE IF found.err # "nil"
       THEN [err |-> "finding base Factorio installation for runtime", made |-> TRUE]
       ELSE IF at = "instanceDirs" THEN [err |-> "creating directory", made |-> TRUE]
       ELSE IF at = "createOverlay" THEN [err |-> "creating overlay", made |-> TRUE]
       ELSE IF at = "SaveConfig" THEN [err |-> "saving configuration", made |-> TRUE]
       ELSE IF at = "mod-list.json" THEN [err |-> "saving mod list", made |-> TRUE]
       ELSE IF at = "server-settings.json" /\ cfg.Server # <<>>
       THEN [err |-> "saving server settings", made |-> TRUE]
       ELSE IF at = "config-path.cfg" THEN [err |-> "creating config-path.cfg", made |-> TRUE]
       ELSE IF at = "player-data.json" THEN [err |-> "creating player-data.json", made |-> TRUE]
       ELSE [err |-> "nil", made |-> TRUE]

\* Manager.Create(cfg)
CreateReturns(cfg, given, factorioPath, slot, at) ==
    LET out == CreateResult(cfg, given, factorioPath, slot, at)
    IN /\ Cardinality(dirNames \cup {cfg.Name}) <= MaxDirs
       /\ dirNames' = IF out.made THEN dirNames \cup {cfg.Name} ELSE dirNames
       /\ nameRet' = [op |-> "Create", name |-> cfg.Name, err |-> out.err,
                      had |-> cfg.Name \in dirNames]
       /\ UNCHANGED nonNameVars

\* Manager.Remove(name, false)
RemoveNamed(name) ==
    /\ IF name \notin dirNames
       THEN /\ nameRet' = NameRet("Remove", name, "does not exist")
            /\ UNCHANGED dirNames
       ELSE /\ nameRet' = NameRet("Remove", name, "nil")
            /\ dirNames' = dirNames \ {name}
    /\ UNCHANGED nonNameVars

CreateNext ==
    \/ \E cfg \in CreateConfigs, given \in BOOLEAN, factorioPath, slot \in CreateEngineDirs,
          at \in CreateFailPoints :
          /\ ~given => factorioPath = NoDir
          /\ CreateReturns(cfg, given, factorioPath, slot, at)
    \/ \E cfg \in CreateConfigs : RemoveNamed(cfg.Name)

\* the added parts before any call
MaxHandlers == 3   \* registrations of one instance name

\* handler values: f and g are made from different function literals, g and
\* g2 from the same one (two runs of the code that builds the closure)
Closures == {"f", "g", "g2"}

\* the lists Subscribe calls can have built
HandlerLists == UNION {[1..n -> Closures] : n \in 0..MaxHandlers}

\* a caller of Unsubscribe, with the list registered for the name
UnsubscribeInit ==
    /\ fnCall \in [fn : {"Unsubscribe"}, st : {"called"},
                    handlers : HandlerLists, handler : Closures]
    /\ fnRet = "none"

\* Unsubscribe returns, leaving the list it wrote under the name
UnsubscribeReturn ==
    /\ fnCall.fn = "Unsubscribe"
    /\ Return(Unsubscribed(fnCall.handlers, fnCall.handler))

UnsubscribeNext == UnsubscribeReturn

ExtParked == CacheParked /\ BackupParked /\ ConfigParked /\ NamesParked /\ FnParked

Init == RtInit /\ LogParked /\ ModParked /\ ExtParked

Next ==
    \/ \E h \in Handles : Create(h)
    \/ \E h \in Handles : Start(h)
    \/ \E r \in DOMAIN recs : ProcExit(r)
    \/ \E r \in DOMAIN recs : WaiterWait(r)
    \/ \E r \in DOMAIN recs : WaiterDelete(r)
    \/ \E r \in DOMAIN recs : WaiterSetState(r)
    \/ \E r \in DOMAIN recs : WaiterCloseLog(r)
    \/ \E r \in DOMAIN recs : WaiterCloseDone(r)
    \/ \E t \in Stoppers, n \in Names : StopLookup(t, n)
    \/ \E t \in Stoppers : StopSignal(t)
    \/ \E t \in Stoppers : StopGraceDone(t)
    \/ \E t \in Stoppers : StopGraceTimeout(t)
    \/ \E t \in Stoppers : StopKill(t)
    \/ \E t \in Stoppers : StopWaitDone(t)
    \/ \E t \in Stoppers, n \in Names : WaitForLookup(t, n)
    \/ \E t \in Stoppers : WaitForDone(t)

Spec == Init /\ [][Next]_vars

\* the waiter goroutine of a record: it is scheduled, and rm.mu is never held
\* for good
Waiter ==
    \E r \in DOMAIN recs :
        \/ WaiterWait(r)
        \/ WaiterDelete(r)
        \/ WaiterSetState(r)
        \/ WaiterCloseLog(r)
        \/ WaiterCloseDone(r)

SpecFair == Init /\ [][Next]_vars /\ WF_vars(Waiter)

\* the supervisor in any of the binaries
InitBuilds ==
    /\ \E bin \in Builds : RtInitOn(bin)
    /\ LogParked /\ ModParked /\ ExtParked

SpecBuilds == InitBuilds /\ [][Next]_vars

InitLogs == RtInit /\ LogInit /\ ModParked /\ ExtParked

SpecLogs == InitLogs /\ [][LogNext]_vars

SpecStream == InitLogs /\ [][StreamNext]_vars

SpecCancelFair == InitLogs /\ [][CancelNext]_vars /\ WF_vars(StreamRun)

InitRotate == RtInit /\ RotateInit /\ ModParked /\ ExtParked

SpecRotate == InitRotate /\ [][RotateNext]_vars

InitMods == RtInit /\ LogParked /\ ModInit /\ ExtParked

SpecMods == InitMods /\ [][ModNext]_vars

\* handleUp runs Create and InstallModsRecursively to their end without waiting
\* for anything but the downloads, which time out
ModRun ==
    \/ LoadConfig
    \/ handleUp
    \/ InstallModsRecursively
    \/ \E order \in UNION {SetToSeqs(S) : S \in SUBSET SourceNames} : InstallLoop(order)
    \/ InstallReturn

ModFair == WF_vars(ModRun)

SpecModsFair == InitMods /\ [][ModNext]_vars /\ ModFair

InitCache ==
    RtInit /\ LogParked /\ ModParked /\ CacheInit /\ BackupParked /\ ConfigParked /\ NamesParked /\ FnParked

SpecCache == InitCache /\ [][CacheNext]_vars

SpecCacheOps == InitCache /\ [][CacheOpsNext]_vars

SpecCacheRace == InitCache /\ [][CacheRaceNext]_vars

InitBackup ==
    RtInit /\ LogParked /\ ModParked /\ CacheParked /\ BackupInit /\ ConfigParked /\ NamesParked /\ FnParked

SpecBackup == InitBackup /\ [][BackupNext]_vars

SpecRestore == InitBackup /\ [][RestoreNext]_vars

InitConfig ==
    RtInit /\ LogParked /\ ModParked /\ CacheParked /\ BackupParked /\ ConfigInit /\ NamesParked /\ FnParked

SpecConfig == InitConfig /\ [][ConfigNext]_vars

InitNames ==
    RtInit /\ LogParked /\ ModParked /\ CacheParked /\ BackupParked /\ ConfigParked /\ NamesInit /\ FnParked

SpecNames == InitNames /\ [][NamesNext]_vars

SpecCreate == InitNames /\ [][CreateNext]_vars

InitVersion ==
    RtInit /\ LogParked /\ ModParked /\ CacheParked /\ BackupParked /\ ConfigParked
    /\ NamesParked /\ VersionInit

SpecVersion == InitVersion /\ [][VersionNext]_vars

InitUnsubscribe ==
    RtInit /\ LogParked /\ ModParked /\ CacheParked /\ BackupParked /\ ConfigParked
    /\ NamesParked /\ UnsubscribeInit

SpecUnsubscribe == InitUnsubscribe /\ [][UnsubscribeNext]_vars

InitParse ==
    RtInit /\ LogParked /\ ModParked /\ CacheParked /\ BackupParked /\ ConfigParked
    /\ NamesParked /\ ParseInit

SpecParse == InitParse /\ [][ParseNext]_vars

InitResolve ==
    RtInit /\ LogParked /\ ModParked /\ CacheParked /\ BackupParked /\ ConfigParked
    /\ NamesParked /\ ResolveInit

SpecResolve == InitResolve /\ [][ResolveNext]_vars

(***************************************************************************)
(* Claims about the process supervisor, checked under Spec                 *)
(***************************************************************************)

\* C1: a Start(n) that runs while a process record for n exists returns the
\* "already running" error, spawns no process and leaves the process map, the
\* records and the instance states untouched; so no two Starts of one name
\* both succeed while a record exists.
C1_StartExclusive ==
    [][\A h \in Handles :
          (Start(h) /\ HandleName[h] \in DOMAIN processes)
             => /\ ret'.res = "already running"
                /\ processes' = processes
                /\ recs' = recs
                /\ instState' = instState]_vars

\* a Start was refused because the instance already has a record
C1_Witness ==
    /\ ret.op = "Start"
    /\ ret.res = "already running"
    /\ HandleName[ret.arg] \in DOMAIN processes

\* C2: IsRunning(n) holds exactly when the map has a record for n, exactly when
\* n is in every possible result of ListRunning; no result lists a name twice,
\* and every process record not yet removed by its waiter is the one record the
\* map holds for its name.
C2_RunningIffRecord ==
    /\ \A n \in Names :
          /\ IsRunning(n) <=> (\E r \in LiveRecs : HandleName[recs[r].inst] = n)
          /\ \A l \in ListRunning : IsRunning(n) <=> n \in Range(l)
    /\ \A l \in ListRunning : Len(l) = Cardinality(Range(l))
    /\ \A r \in LiveRecs :
          /\ HandleName[recs[r].inst] \in DOMAIN processes
          /\ processes[HandleName[recs[r].inst]] = r

\* both instances have a record, so ListRunning has two names
C2_Witness ==
    /\ \A n \in Names : IsRunning(n)
    /\ \E l \in ListRunning : Len(l) = 2

\* C3: an instance is stopped right after Create, and whenever its state is
\* running the process map holds a record for its name.
C3_RunningOnlyWithRecord ==
    /\ (ret.op = "Create") => instState[ret.arg] = StateStopped
    /\ \A h \in Handles :
          instState[h] = StateRunning => HandleName[h] \in DOMAIN processes

\* C4: every Stop that found a process record returns only once that record's
\* done-signal is closed, whatever it returns.
C4_StopWaitsForDone ==
    (ret.op = "Stop" /\ ret.res # "not running") => recs[ret.rec].done

(***************************************************************************)
(* Claims about the log subsystem, checked under SpecLogs                  *)
(***************************************************************************)

\* C5: for a handler subscribed before StreamLogs started and subscribed ever
\* since, with the log never rotated: whenever every appended line is complete
\* and the streamer has nothing left to read (scanner at EOF, open file no
\* larger than currentPos), the Raw values it received are exactly the lines
\* appended since the stream started, in order.
C5_TailEqualsAppended ==
    \A h \in cleanSub :
        (/\ Len(files) = 1
         /\ stream.pc = "loop"
         /\ ~Scan(stream.buf, stream.eof, stream.off, files[stream.file]).ok
         /\ Len(files[stream.file]) <= stream.pos
         /\ (appended[h] = <<>> \/ appended[h][Len(appended[h])] = "\n"))
        => delivered[h] = Lines(appended[h])

\* C6: an EOF poll of the streamer made while the file at the log path is no
\* longer the file it holds open leaves the streamer on the file at the path.
C6_ReopensAfterRotation ==
    [][(StreamPoll /\ stream.file # paths[1]) => stream'.file = paths[1]]_vars

(***************************************************************************)
(* Claims about the mod installer, checked under SpecMods                  *)
(***************************************************************************)

\* C7: after an install run that returned without error, every enabled mod
\* that is not built in has exactly one file matching <name>_*.zip in mods/
\* and exactly one entry in mod-list.json, which is enabled.
C7_EnabledModsInstalledOnce ==
    (mpc = "done" /\ mret = "ok") =>
        \A i \in DOMAIN enabled :
            ~isBuiltinMod(enabled[i]) =>
                /\ Cardinality(Glob(modFiles, enabled[i])) = 1
                /\ Cardinality({k \in DOMAIN modList : modList[k].name = enabled[i]}) = 1
                /\ \A k \in DOMAIN modList :
                      modList[k].name = enabled[i] => modList[k].enabled

\* C8: in one run no name is installed twice, and no name is fetched (from
\* the registry or the portal) or written while it is in the installed set
\* or has a file <name>_*.zip on disk.
C8_InstalledAtMostOnce ==
    /\ \A i \in DOMAIN log : log[i].act \in {"installed", "failed"} => ~log[i].had
    /\ \A i, j \in DOMAIN log :
          (/\ log[i].act = "installed"
           /\ log[j].act = "installed"
           /\ log[i].name = log[j].name) => i = j

\* a finished run in which a name was installed and met again in the queue
C8_Witness ==
    /\ mpc = "done"
    /\ \E i, j \in DOMAIN log :
          /\ i < j
          /\ log[i].name = log[j].name
          /\ log[i].act = "installed"
          /\ log[j].act = "queued twice"

\* C9: no step puts or leaves a name on the install queue, or has the loop
\* process a name, on account of a dependency line that begins with !, ?, (?)
\* or base; and a direct install writes no archive but the one it was asked for.
C9_SkippedLinesNeverQueued ==
    [][LET Prefixed(l) == \/ HasPrefix(l, <<"!">>)
                          \/ HasPrefix(l, <<"?">>)
                          \/ HasPrefix(l, <<"(", "?", ")">>)
                          \/ HasPrefix(l, <<"b", "a", "s", "e">>)
       IN /\ \A i \in DOMAIN installQueue' : ~Prefixed(installQueue'[i].line)
          /\ \A i \in DOMAIN log' : ~Prefixed(log'[i].line)
          /\ \A arch \in DirectArchives :
                InstallMod(arch) => modFiles' \subseteq (modFiles \cup {arch})]_vars

\* a finished run that installed a whose only dependency line is "? b", and
\* in which b never came up
C9_Witness ==
    /\ mpc = "done"
    /\ \E i \in DOMAIN log : log[i].name = ModA /\ log[i].act = "installed"
    /\ modInfos[ModA].deps = <<<<"?", " ", "b">>>>
    /\ \A i \in DOMAIN log : log[i].name # ModB

\* C10: an install run that has entered its loop reaches its return.
C10_InstallTerminates == (mpc = "loop") ~> (mpc = "done")

\* a finished run that installed a and b, each depending on the other
C10_Witness ==
    /\ mpc = "done"
    /\ \E i, j \in DOMAIN log :
          /\ log[i].name = ModA /\ log[i].act = "installed"
          /\ log[j].name = ModB /\ log[j].act = "installed"
    /\ modInfos[ModA].deps = <<ModB>>
    /\ modInfos[ModB].deps = <<ModA>>

\* C11: when InstallModsRecursively has returned, it returned the summary error
\* exactly if some mod failed through the registry and the portal, the loop
\* went on to the end of the queue after every failure, and no mod whose
\* install failed is among the installed names it returns
C11_FailedNotReturned ==
    mpc = "done" =>
        /\ (mret = "errors") <=> (\E i \in DOMAIN log : log[i].act = "failed")
        /\ installQueue = <<>>
        /\ \A i \in DOMAIN log : log[i].act = "failed" => log[i].name \notin installedMods

\* C12: after a successful fetch of U, a later fetch of U, with no cache file
\* removed in between, yields the same bytes and makes no network request
C12_SecondFetchFromCache ==
    \A i \in DOMAIN fetched : \A j \in DOMAIN fetched :
        (/\ i < j
         /\ fetched[i].op \in {"github", "git"}
         /\ fetched[j].op = fetched[i].op
         /\ fetched[j].url = fetched[i].url
         /\ fetched[i].ok
         /\ \A k \in (i + 1)..(j - 1) : fetched[k].op # "remove")
        => (fetched[j].ok /\ fetched[j].out = fetched[i].out /\ fetched[j].net = 0)

\* C13: once Remove(name, backup = true) was followed by RestoreBackup of the
\* first name ListBackups(name) returns, the directory of the instance exists
\* again and holds every regular file it held, with the same content
C13_RestoreRoundTrip ==
    trip.st = "restored" =>
        /\ trip.name \in DOMAIN instDirs
        /\ \A p \in DOMAIN trip.orig :
               ~trip.orig[p].dir =>
                   /\ p \in DOMAIN instDirs[trip.name]
                   /\ instDirs[trip.name][p] = trip.orig[p]

\* C14: a mod that the install loop installed while some configured source
\* held a compatible archive of it was installed from the first such source in
\* sorted source-name order, whatever the run
C14_FirstSortedSourceWins ==
    LET sorted == <<"s1", "s2">>
        pos(src) == CHOOSE k \in DOMAIN sorted : sorted[k] = src
    IN \A i \in DOMAIN log :
           LET good == {e \in sourceRegistry :
                           e.name = log[i].name /\ Compatible(e.arch)}
           IN (log[i].act = "installed" /\ good # {}) =>
                  \E e \in good :
                      /\ \A g \in good : pos(e.source) <= pos(g.source)
                      /\ modInfos[log[i].name] = e.arch

\* C15: a RotateLogs call that changes any file found the current log strictly
\* larger than max_file_size; at exactly max_file_size it leaves all files alone
C15_RotatesOnlyAboveMax ==
    [][(RotateLogs /\ <<files, paths>>' # <<files, paths>>)
          => Len(files[paths[1]]) > MaxFileSize]_vars

\* C16: LoadConfig applied to the file SaveConfig wrote for a valid Config
\* returns no error and a Config equal to the one saved
C16_ConfigRoundTrip ==
    cfgLoaded.st = "returned" => (cfgLoaded.err = "nil" /\ <<cfgLoaded.cfg>> = cfgSaved)

\* C17: every name an instance directory was created under, and every name a
\* configuration was loaded with, is not empty, has at most 50 characters and
\* only characters of [A-Za-z0-9_-]
C17_OnlyValidNames ==
    LET allowed == {"a", "z", "A", "Z", "0", "9", "_", "-"}
        valid(name) == /\ name # <<>>
                       /\ Len(name) <= 50
                       /\ \A i \in DOMAIN name : name[i] \in allowed
    IN /\ \A name \in dirNames : valid(name)
       /\ (nameRet.op = "LoadConfig" /\ nameRet.err = "nil") => valid(nameRet.name)

\* C18: no step downloads or uninstalls a built-in mod: an iteration of the
\* install loop on a built-in name installs nothing, and UninstallMod on a
\* built-in name returns an error and leaves mods/ and mod-list.json as they were
C18_BuiltinsUntouched ==
    [][/\ \A order \in UNION {SetToSeqs(S) : S \in SUBSET SourceNames} :
              (InstallLoop(order) /\ isBuiltinMod(Head(installQueue).name)) =>
                  /\ log'[Len(log')].act # "installed"
                  /\ {f \in modFiles' : isBuiltinMod(f.name)}
                         = {f \in modFiles : isBuiltinMod(f.name)}
       /\ \A modName \in UninstallNames :
              (UninstallMod(modName) /\ isBuiltinMod(modName)) =>
                  /\ mret' # "ok"
                  /\ UNCHANGED <<modFiles, modList>>]_vars

\* C19: an UninstallMod(name) that returns nil leaves no archive of name in
\* mods/, leaves the archives of every other mod there, sets the entry of name
\* in mod-list.json to enabled=false and leaves every other entry as it was
C19_UninstallFrame ==
    [][\A modName \in UninstallNames :
          (UninstallMod(modName) /\ mret' = "ok") =>
              /\ modFiles' = {f \in modFiles : f.name # modName}
              /\ DOMAIN modList' = DOMAIN modList
              /\ \A i \in DOMAIN modList :
                     /\ modList'[i].name = modList[i].name
                     /\ modList[i].name = modName => ~modList'[i].enabled
                     /\ modList[i].name # modName => modList'[i] = modList[i]]_vars

\* C20: once Create has written mod-list.json, whatever installs and
\* uninstalls follow, the list has an entry for base with enabled=true
C20_BaseEnabled ==
    mpc \notin {"blank", "new"} =>
        \E i \in DOMAIN modList : modList[i].name = ModBase /\ modList[i].enabled

\* C20: an uninstall that followed an install has switched an entry off
C20_Witness ==
    /\ mpc = "removed"
    /\ mret = "ok"
    /\ log # <<>>
    /\ \E i \in DOMAIN modList : modList[i].name # ModBase /\ ~modList[i].enabled
    /\ \E i \in DOMAIN modList : modList[i].name = ModBase /\ modList[i].enabled

\* C21: isVersionCompatible(f, m) is true exactly when f and m, two-component
\* versions padded with .0, have the same major and the same minor component
C21_CompatibleIffMajorMinor ==
    LET pad(v) == IF Len(v) = 2 THEN Append(v, 0) ELSE v
        f == pad(fnCall.factorioVersion)
        m == pad(fnCall.modVersion)
    IN (fnCall.fn = "isVersionCompatible" /\ fnCall.st = "returned") =>
           (fnRet <=> (Len(f) >= 2 /\ Len(m) >= 2 /\ f[1] = m[1] /\ f[2] = m[2]))

\* C22: a gh: or ghpr: specification whose repository part is
\* owner/repo/subpath parses to a Source with that owner, that repo and that
\* subpath in separate fields, and the fetch of a gh: one asks for the
\* repository owner/repo
C22_SubPathParsed ==
    LET spec == fnCall.spec
        three == /\ Len(spec) >= 8
                 /\ spec[1] \in {"gh", "ghpr"}
                 /\ spec[4] = "/" /\ spec[6] = "/" /\ spec[8] \in {"@", "#"}
        split(src) == /\ src.Owner = <<spec[3]>>
                      /\ src.Repo = <<spec[5]>>
                      /\ src.SubPath = <<spec[7]>>
    IN /\ (fnCall.fn = "ParseSource" /\ fnCall.st = "returned" /\ three /\ fnRet.err = "nil")
           => split(fnRet)
       /\ (fnCall.fn = "Fetch" /\ three) =>
              /\ split(fnRet.src)
              /\ fnRet.got.err = "nil"
              /\ SubSeq(fnRet.got.url, 1, 7) = <<"/", "repos", "/", spec[3], "/", spec[5], "/">>

\* C23: InstallMod with a direct source specification whose archive is
\* compatible and whose dependencies are on disk or offered by the portal
\* returns nil with the archive written, the mod enabled and every dependency
\* on disk; with portal:<name> it installs the archive the portal offers
C23_DirectInstall ==
    [][/\ \A arch \in DirectArchives :
              LET deps == {e.name : e \in Range(DepEntries(arch.deps))}
              IN (/\ InstallMod(arch)
                  /\ Compatible(arch)
                  /\ \A n \in deps :
                         isModInstalled(modFiles, n) \/ installModFromPortal(n) # {})
                 => /\ mret' = "ok"
                    /\ arch \in modFiles'
                    /\ \E i \in DOMAIN modList' :
                           modList'[i].name = arch.name /\ modList'[i].enabled
                    /\ \A n \in deps : isModInstalled(modFiles', n)
       /\ \A modName \in {ModB} :
              (InstallModPortalSpec(modName) /\ installModFromPortal(modName) # {})
                 => /\ mret' = "ok"
                    /\ \E f \in modFiles' : f.name = modName]_vars

\* C24: when the slot runtimes/<config.runtime> exists as a valid installation
\* Create uses it as it is, whatever engine path the operator supplied; only
\* when no slot exists does the supplied path decide, and then the runtime is
\* found exactly when that path is a valid installation
C24_SlotFirst ==
    (fnCall.fn = "findBaseFactorioForRuntime" /\ fnCall.st = "returned") =>
        /\ (fnCall.slot.exists /\ isValidFactorioInstallation(fnCall.slot)) =>
               (fnRet.err = "nil" /\ fnRet.slot = fnCall.slot)
        /\ (~fnCall.slot.exists /\ fnCall.given) =>
               (fnRet.err = "nil" <=> isValidFactorioInstallation(fnCall.factorioPath))

\* C25: a Stop or a WaitFor for a name that has no process record returns
\* 'not running', has sent no signal, and leaves the process map, the records,
\* every instance state and every call in progress as they were
C25_NotRunningRefused ==
    [][\A t \in Stoppers, n \in Names :
          ((StopLookup(t, n) \/ WaitForLookup(t, n)) /\ n \notin DOMAIN processes) =>
              /\ ret'.res = "not running"
              /\ ret'.sent = <<>>
              /\ UNCHANGED <<instState, processes, recs, stop>>]_vars

\* C25: a Stop was refused for a name whose process has run and is gone
C25_Witness ==
    /\ ret.op = "Stop"
    /\ ret.res = "not running"
    /\ \E r \in DOMAIN recs : HandleName[recs[r].inst] = ret.arg /\ recs[r].wpc # "wait"
    /\ ret.arg \notin DOMAIN processes

\* C26: an install step writes no archive that declares an engine version
\* whose major or minor differs from the instance's; a direct install of such
\* an archive, and a loop iteration for a mod of which only such archives are
\* offered, ends in an error with mods/ and mod-list.json as they were
C26_IncompatibleNeverWritten ==
    [][LET pad(v) == IF Len(v) = 2 THEN Append(v, 0) ELSE v
           incompatible(a) ==
               /\ a.fv # <<>>
               /\ (pad(a.fv)[1] # pad(InstVersion)[1] \/ pad(a.fv)[2] # pad(InstVersion)[2])
           offered(n) == {e.arch : e \in {r \in sourceRegistry : r.name = n}}
                            \cup {a \in portal : a.name = n}
       IN /\ \A f \in modFiles' \ modFiles : ~incompatible(f)
          /\ \A arch \in DirectArchives :
                 (InstallMod(arch) /\ incompatible(arch)) =>
                     (mret' # "ok" /\ UNCHANGED <<modFiles, modList>>)
          /\ \A order \in UNION {SetToSeqs(S) : S \in SUBSET SourceNames} :
                 LET n == Head(installQueue).name
                 IN (/\ InstallLoop(order)
                     /\ n \notin installedMods
                     /\ ~isModInstalled(modFiles, n)
                     /\ ~isBuiltinMod(n)
                     /\ \A a \in offered(n) : incompatible(a))
                    => /\ log'[Len(log')].act = "failed"
                       /\ errors' = Append(errors, n)
                       /\ UNCHANGED <<modFiles, modList>>]_vars

\* C26: a direct install was refused as incompatible after a loop iteration
\* failed on a mod that is offered only in an incompatible version
C26_Witness ==
    /\ mpc = "direct"
    /\ mret = "incompatible"
    /\ \E i \in DOMAIN log :
           /\ log[i].act = "failed"
           /\ \E a \in portal : a.name = log[i].name /\ a.fv = <<1, 1>>

\* C27: whenever a started process has exited, its done-signal is eventually
\* closed; and whenever the done-signal of a record is closed, the waiter has
\* removed the record from the map, has written stopped for a clean exit and
\* error otherwise, and has closed the log file
C27_WaiterCleansUp ==
    /\ [](\A r \in DOMAIN recs :
             recs[r].done =>
                 /\ \A n \in DOMAIN processes : processes[n] # r
                 /\ recs[r].wrote = (IF recs[r].code = "clean" THEN "stopped" ELSE "error")
                 /\ ~recs[r].logOpen)
    /\ \A r \in 1..MaxStarts :
           (r \in DOMAIN recs /\ recs[r].os = "exited")
               ~> (r \in DOMAIN recs /\ recs[r].done)

\* C27: the done-signal of a process that did not exit cleanly is closed
C27_Witness ==
    \E r \in DOMAIN recs :
        /\ recs[r].done
        /\ recs[r].code = "fail"
        /\ recs[r].wrote = "error"
        /\ ~recs[r].logOpen

\* C28: the signals a Stop call has sent are the graceful signal of the
\* instance (SIGTERM when headless, SIGINT otherwise) first and SIGKILL after
\* it at most; SIGKILL goes out only from a call whose 10 s wait ended without
\* the done-signal, and a call that saw the done-signal in time returns with
\* the graceful signal alone
C28_GracefulFirst ==
    /\ \A t \in Stoppers :
           stop[t].sent # <<>> =>
               /\ stop[t].sent[1] = GracefulSignal(stop[t].rec)
               /\ Len(stop[t].sent) = 2 => (stop[t].sent[2] = "SIGKILL" /\ stop[t].pc = "waitDone")
               /\ Len(stop[t].sent) <= 2
    /\ (ret.op = "Stop" /\ ret.sent # <<>>) => ret.sent[1] = GracefulSignal(ret.rec)

\* C29: the install loop is first in, first out: the queue starts as the
\* enabled mods in the order given; each iteration takes the head of the queue,
\* leaves the rest in place and appends, only when it installed that mod, the
\* mod's dependencies in the order of its dependency lines; and it adds to the
\* installed set no name but the one it took
C29_BreadthFirst ==
    [][/\ InstallModsRecursively =>
              /\ Len(installQueue') = Len(enabled)
              /\ \A i \in DOMAIN enabled : installQueue'[i].name = enabled[i]
       /\ \A order \in UNION {SetToSeqs(S) : S \in SUBSET SourceNames} :
              InstallLoop(order) =>
                  LET n == Head(installQueue).name
                      rest == Tail(installQueue)
                      added == SubSeq(installQueue', Len(rest) + 1, Len(installQueue'))
                      lines == IF n \in DOMAIN modInfos' THEN modInfos'[n].deps ELSE <<>>
                      at(k) == CHOOSE j \in DOMAIN lines : lines[j] = added[k].line
                  IN /\ log'[Len(log')].name = n
                     /\ Len(installQueue') >= Len(rest)
                     /\ SubSeq(installQueue', 1, Len(rest)) = rest
                     /\ installedMods \subseteq installedMods'
                     /\ installedMods' \subseteq installedMods \cup {n}
                     /\ added # <<>> =>
                            /\ log'[Len(log')].act = "installed"
                            /\ n \in installedMods'
                            /\ \A k \in DOMAIN added :
                                   \E j \in DOMAIN lines : lines[j] = added[k].line
                            /\ \A k, l \in DOMAIN added : k < l => at(k) <= at(l)]_vars

\* C29: a dependency was installed after the mod that brought it in, with
\* another enabled mod handled in between
C29_Witness ==
    /\ mpc = "done"
    /\ \E i, j, k \in DOMAIN log :
           /\ i < j /\ j < k
           /\ log[i].act = "installed" /\ log[i].line = <<>>
           /\ log[j].line = <<>>
           /\ log[k].act = "installed" /\ log[k].line # <<>>

\* C30: a RotateLogs call that rotates leaves the previous log.N at log.N+1
\* for every N below max_files, the previous current log at log.1 and a new
\* empty file at factorio.log; the previous log.<max_files> is at no path any
\* more, every other file keeps its content, and there are max_files rotated
\* logs at most
C30_RotationShifts ==
    [][RotateLogsUpTo(MaxFiles + MaxRotations) =>
          /\ DOMAIN paths' = 1..(MaxFiles + 1)
          /\ paths'[1] \notin Range(paths) \cup {0}
          /\ files'[paths'[1]] = <<>>
          /\ paths'[2] = paths[1]
          /\ \A N \in 1..(MaxFiles - 1) : paths'[N + 2] = paths[N + 1]
          /\ paths[MaxFiles + 1] # 0 => paths[MaxFiles + 1] \notin Range(paths')
          /\ \A f \in DOMAIN files : files'[f] = files[f]]_vars

\* C30: a rotation has deleted a log.<max_files> that held something and has
\* moved the older logs up
C30_Witness ==
    /\ Len(files) > MaxFiles + 1
    /\ \A i \in 1..(MaxFiles + 1) : paths[i] # 0
    /\ \E f \in DOMAIN files : f \notin Range(paths) /\ files[f] # <<>>
    /\ files[paths[1]] = <<>>
    /\ files[paths[2]] # <<>>

\* C31: a cache lookup for key U reports a hit only if the registry.json it
\* read has an entry for U and the entry's backing file exists; when the entry
\* exists and
\* the file is missing the lookup reports a miss and leaves registry.json
\* without the entry for U and with every other entry as it was
C31_LookupValidatesFile ==
    [][\A d \in Invocations :
          (dl[d].pc = "looked" /\ dl'[d].pc # "looked") =>
              LET url == dl[d].url
                  has == url \in DOMAIN dl[d].reg
                  backed == has /\ dl[d].reg[url].FilePath \in DOMAIN cacheDir
              IN /\ dl'[d].look = "hit" <=> backed
                 /\ (has /\ ~backed) =>
                        /\ dl'[d].look = "stale"
                        /\ dl'[d].pc = "fetch"
                        /\ url \notin DOMAIN registry'
                        /\ \A k \in DOMAIN registry \ {url} :
                               k \in DOMAIN registry' /\ registry'[k] = registry[k]
                 /\ ~(has /\ ~backed) => registry' = registry]_vars

\* C32: the registry entry for key U is created or changed only by a download
\* of U whose request delivered the whole body and whose backing file was
\* written before with exactly those bytes; a download that failed or broke
\* off changes no entry and writes no file; no entry whose backing file exists
\* is removed
C32_WriteThroughAfterSuccess ==
    [][/\ \A url \in CacheKeys :
              (url \in DOMAIN registry' /\ (url \notin DOMAIN registry \/ registry'[url] # registry[url])) =>
                  \E d \in Invocations :
                      /\ dl[d].pc = "save"
                      /\ dl[d].url = url
                      /\ dl[d].buf = Body(url)
                      /\ dl[d].written = Body(url)
                      /\ registry'[url] = Entry(url, Body(url))
       /\ \A d \in Invocations :
              (dl[d].pc = "fetch" /\ dl'[d].out = "error") =>
                  /\ registry' = registry
                  /\ cacheDir' = cacheDir
                  /\ dl'[d].pc = "idle"
       /\ \A url \in DOMAIN registry :
              registry[url].FilePath \in DOMAIN cacheDir => url \in DOMAIN registry'
       /\ \A path \in DOMAIN cacheDir' :
              (path \notin DOMAIN cacheDir \/ cacheDir'[path] # cacheDir[path]) =>
                  \E url \in CacheKeys : path = getCachePath(url) /\ cacheDir'[path] = Body(url)]_vars

\* C33: once the context given to StreamLogs is cancelled the goroutine
\* stops: it ends up stopped with the log file closed and no handler left to
\* call, and it stays stopped
C33_StopsOnCancel ==
    /\ [](stream.pc = "stopped" =>
              /\ ~stream.open
              /\ stream.snap = <<>>)
    /\ [](stream.pc = "stopped" => [](stream.pc = "stopped"))
    /\ (stream.ctx = "cancelled") ~> (stream.pc = "stopped")

\* the goroutine has stopped with handlers registered and bytes in the file
\* that it has not read
C33_Witness ==
    /\ stream.pc = "stopped"
    /\ handlers # <<>>
    /\ Len(files[stream.file]) > stream.pos
    /\ \E h \in LogHandlers : delivered[h] # <<>>

\* C34: while StreamLogs runs and handlers subscribe and unsubscribe, the
\* goroutine calls no handler that is not registered at that moment, and when it
\* is through with a line every handler registered since the line was scanned
\* has been called with it exactly once
C34_DeliveredOncePerSubscriber ==
    [][(stream.pc = "deliver" /\ (stream'.idx # stream.idx \/ stream'.pc # "deliver")) =>
          LET h == stream.snap[stream.idx]
              got == Append(stream.got, h)
          IN /\ h \in Range(handlers)
             /\ stream'.pc # "deliver" =>
                    \A g \in stream.stayed :
                        Cardinality({k \in DOMAIN got : got[k] = g}) = 1]_vars

\* C35: while rm.processes holds a record for an instance (Start stores it
\* and returns in one critical section), the state of the instance the record
\* was made for is running
C35_RecordMeansRunning ==
    \A n \in DOMAIN processes :
        instState[recs[processes[n]].inst] = StateRunning

\* C36: Unsubscribe(n, h) removes one registration of h itself and keeps the
\* others in their order; it removes nothing when h is not registered
C36_RemovesOwnRegistration ==
    (fnCall.fn = "Unsubscribe" /\ fnCall.st = "returned") =>
        LET hs == fnCall.handlers
            h == fnCall.handler
        IN IF h \in Range(hs)
           THEN \E i \in DOMAIN hs :
                    /\ hs[i] = h
                    /\ fnRet = SubSeq(hs, 1, i - 1) \o SubSeq(hs, i + 1, Len(hs))
           ELSE fnRet = hs

\* C37: the install loop skips a name as already installed only when an
\* archive of the mod of exactly that name is in the mods directory
C37_SkippedOnlyIfInstalled ==
    [][(Len(log') = Len(log) + 1 /\ log'[Len(log')].act = "on disk") =>
          \E f \in modFiles : f.name = log'[Len(log')].name]_vars

\* C39: a RestoreBackup call that returns an error leaves the instance
\* directory it restores to, if that was there before the call, with the
\* content it had, and leaves no temporary directory behind.
C39_ErrorLeavesInstance ==
    (rst.pc = "returned" /\ rst.err # "nil") =>
        /\ ~rst.hasTmp
        /\ rst.had =>
              /\ rst.instName \in DOMAIN instDirs
              /\ instDirs[rst.instName] = rst.before

\* C40: when Create has returned an error, the instance directory of its
\* configuration is there only if it was there before the call.
C40_ErrorLeavesNoDirectory ==
    (nameRet.op = "Create" /\ nameRet.err # "nil" /\ ~nameRet.had) =>
        nameRet.name \notin dirNames

\* C38: when two invocations have each cached a download, of different keys,
\* and both backing files are in the cache directory, registry.json holds the
\* entries of both
C38_NoLostEntry ==
    \A d1, d2 \in Invocations :
        (/\ d1 # d2
         /\ dl[d1].pc = "idle" /\ dl[d1].out = "cached"
         /\ dl[d2].pc = "idle" /\ dl[d2].out = "cached"
         /\ dl[d1].url # dl[d2].url
         /\ getCachePath(dl[d1].url) \in DOMAIN cacheDir
         /\ getCachePath(dl[d2].url) \in DOMAIN cacheDir)
        => /\ dl[d1].url \in DOMAIN registry
           /\ dl[d2].url \in DOMAIN registry
====
